---- MODULE Spec2Model ----
(***************************************************************************)
(* A model of the reporting client (src/src/index.ts): run() and the       *)
(* functions it calls, one action per stretch of code between two awaits.  *)
(*                                                                         *)
(* Strings are sequences of tokens, "+" is \o and "" is <<>>.  The tokens  *)
(* "/" and "error" are atomic: no other token contains them, so a string   *)
(* ends with one of them exactly when its last token is that token.        *)
(* A number is the token sequence of its decimal form.  An optional object *)
(* or array is a set with at most one element ({} when the field is        *)
(* absent); an optional string or number is the value `undefined` when     *)
(* absent.                                                                 *)
(***************************************************************************)
EXTENDS Integers, Sequences, FiniteSets, TLC

VARIABLES
    pc,          \* where run() is suspended: "init", "lookup", "token", "jobrun",
                 \* "socket", "delay", "poll", "done" (resolved), "failed" (rejected)
    itemId,      \* run's first argument
    options,     \* run's second argument (token, portalUrl, usePolling, parameters)
    hasWebSocket,\* "WebSocket" in globalThis
    requests,    \* every network request issued so far, in order
    portalUrl,   \* run's local portalUrl
    portalItemInfo, \* run's local portalItemInfo
    apiServiceUrl, \* run's local apiServiceUrl
    bearerToken, \* run's local bearerToken
    ticket,      \* run's local ticket
    outcome,     \* what run() settled with: [kind, value]
    socket,      \* the WebSocket of watchJobWithSocket: "none", "open", "closed", "serverclosed"
    settled,     \* whether the promise of watchJobWithSocket has been resolved
    lastEvent,   \* the event handled last: a response, the timer of pollJob, or a
                 \* socket event that came before watchJobWithSocket settled
    nPolls,      \* polling GETs issued
    fnIn,        \* input of the pure function under check (function specifications)
    fnOut        \* its result

vars == <<pc, itemId, options, hasWebSocket, requests, portalUrl, portalItemInfo,
          apiServiceUrl, bearerToken, ticket, outcome, socket, settled, lastEvent,
          nPolls, fnIn, fnOut>>

runVars == <<pc, itemId, options, hasWebSocket, requests, portalUrl, portalItemInfo,
             apiServiceUrl, bearerToken, ticket, outcome, socket, settled, lastEvent,
             nPolls>>

fnVars == <<fnIn, fnOut>>

----------------------------------------------------------------------------
(* Bounds *)

\* the longest results array of a status payload
MaxResults == 2
\* the longest results array a single evaluation of a status payload is given
MaxStatusResults == 3
\* polling GETs one run may issue before the model stops following it
MaxPolls == 2
\* the most keys a parameters object is given
MaxParams == 2

----------------------------------------------------------------------------
(* JavaScript values *)

undefined == <<"<undefined>">>

\* if (x), !x, x || y on an optional string
Truthy(s) == s # undefined /\ s # <<>>

\* `${x}`
Template(x) == IF x = undefined THEN <<"undefined">> ELSE x

\* x || y
OrElse(x, y) == IF Truthy(x) THEN x ELSE y

\* the indices of s, in order, as the array methods visit them
Indices(s) == 1..Len(s)

\* all sequences over S of length at most n
SeqsUpTo(S, n) == UNION {[1..k -> S] : k \in 0..n}

----------------------------------------------------------------------------
(* Status payloads: JobStatusResponse, index.ts lines 46-57 *)

JobResult == <<"Job", "Result">>
JobQuit == <<"Job", "Quit">>

Tags == {undefined, <<>>, <<"TAG1">>, <<"TAG2">>}

\* the message and code of a record that is neither a JobResult nor a JobQuit
Details == {[message |-> undefined, code |-> undefined],
            [message |-> undefined, code |-> <<"42">>],
            [message |-> <<>>, code |-> <<"42">>],
            [message |-> <<"boom">>, code |-> undefined],
            [message |-> <<"boom">>, code |-> <<"42">>]}

\* the records of a results array: a JobResult carries a tag, a JobQuit
\* nothing, a record whose $type ends with "error" a message and a code; one
\* record has a $type that ends with "Error"
ResultRecords ==
    {[type |-> JobResult, tag |-> t, message |-> undefined, code |-> undefined] : t \in Tags}
    \cup {[type |-> JobQuit, tag |-> undefined, message |-> undefined, code |-> undefined]}
    \cup {[type |-> <<"Job", "error">>, tag |-> undefined, message |-> d.message,
           code |-> d.code] : d \in Details}
    \cup {[type |-> <<"Job", "Error">>, tag |-> undefined, message |-> <<"boom">>,
           code |-> <<"42">>]}

\* the top-level error of a status payload
StatusErrors == {[message |-> <<"denied">>, status |-> <<"403">>],
                 [message |-> <<"denied">>, status |-> undefined]}

\* results and error are optional: {} when absent
StatusPayloads(n) ==
    {[results |-> r, error |-> e] :
        r \in {{}} \cup {{s} : s \in SeqsUpTo(ResultRecords, n)},
        e \in {{}} \cup {{x} : x \in StatusErrors}}

----------------------------------------------------------------------------
(* createError and checkJobStatusResponse *)

genericErrorMessage == <<"The request could not be completed.">>

\* the Error without its code
createError_NoCode(statusText, status) ==
    <<"Response error: \"">> \o Template(statusText) \o <<"\"">>

\* the Error that createError throws
createError(statusText, status) ==
    IF status # undefined
    THEN <<"Error code: ">> \o status \o <<". Response error: \"">>
            \o Template(statusText) \o <<"\"">>
    ELSE <<"Response error: \"">> \o Template(statusText) \o <<"\"">>

\* String.prototype.endsWith("error")
EndsWithError(s) == Len(s) > 0 /\ s[Len(s)] = "error"

\* results.find(r => r.$type === type)
FindType(results, type) ==
    LET hits == {i \in Indices(results) : results[i].type = type}
    IN IF hits = {} THEN {}
       ELSE {results[CHOOSE i \in hits : \A j \in hits : i <= j]}

\* results.find(r => r.$type && r.$type.endsWith("error"))
FindError(results) ==
    LET hits == {i \in Indices(results) :
                    Truthy(results[i].type) /\ EndsWithError(results[i].type)}
    IN IF hits = {} THEN {}
       ELSE {results[CHOOSE i \in hits : \A j \in hits : i <= j]}

Returns(v) == [throws |-> FALSE, value |-> v]
Throws(m) == [throws |-> TRUE, value |-> m]

\* the evaluation that looks at results before it looks at error
checkJobStatusResponse_ResultsFirst(response) ==
    LET rs == IF response.results = {} THEN << >>
              ELSE CHOOSE x \in response.results : TRUE
        result == FindType(rs, JobResult)
    IN IF result # {}
       THEN Returns((CHOOSE x \in result : TRUE).tag)
       ELSE IF response.error # {}
       THEN LET e == CHOOSE x \in response.error : TRUE
            IN Throws(createError(e.message, e.status))
       ELSE IF response.results = {}
       THEN Throws(createError(genericErrorMessage, undefined))
       ELSE Returns(undefined)

\* the evaluation that takes results without JobResult and JobQuit for a
\* failure
checkJobStatusResponse_PendingFails(response) ==
    LET rs == IF response.results = {} THEN << >>
              ELSE CHOOSE x \in response.results : TRUE
        result == FindType(rs, JobResult)
    IN IF response.error # {}
       THEN LET x == CHOOSE y \in response.error : TRUE
            IN Throws(createError(x.message, x.status))
       ELSE IF response.results # {} /\ result # {}
       THEN Returns((CHOOSE x \in result : TRUE).tag)
       ELSE Throws(createError(genericErrorMessage, undefined))

\* the evaluation that takes a payload without results and error for pending
checkJobStatusResponse_NeitherIsPending(response) ==
    LET results == response.results
        error == response.error
    IN IF error # {}
       THEN LET e == CHOOSE x \in error : TRUE
            IN Throws(createError(e.message, e.status))
       ELSE IF results # {}
       THEN LET rs == CHOOSE x \in results : TRUE
                result == FindType(rs, JobResult)
                quit == FindType(rs, JobQuit)
                err == FindError(rs)
            IN IF result # {}
               THEN Returns((CHOOSE x \in result : TRUE).tag)
               ELSE IF quit # {}
               THEN LET message == IF err = {} THEN genericErrorMessage
                                   ELSE OrElse((CHOOSE x \in err : TRUE).message,
                                               genericErrorMessage)
                        code == IF err = {} THEN undefined
                                ELSE (CHOOSE x \in err : TRUE).code
                    IN Throws(createError(message, code))
               ELSE Returns(undefined)
       ELSE Returns(undefined)

\* the evaluation that looks for a JobQuit before it returns the JobResult
checkJobStatusResponse_QuitFirst(response) ==
    LET results == response.results
        error == response.error
    IN IF error # {}
       THEN LET e == CHOOSE x \in error : TRUE
            IN Throws(createError(e.message, e.status))
       ELSE IF results # {}
       THEN LET rs == CHOOSE x \in results : TRUE
                result == FindType(rs, JobResult)
                quit == FindType(rs, JobQuit)
                err == FindError(rs)
            IN IF result # {} /\ quit = {}
               THEN Returns((CHOOSE x \in result : TRUE).tag)
               ELSE IF quit # {}
               THEN LET message == IF err = {} THEN genericErrorMessage
                                   ELSE OrElse((CHOOSE x \in err : TRUE).message,
                                               genericErrorMessage)
                        code == IF err = {} THEN undefined
                                ELSE (CHOOSE x \in err : TRUE).code
                    IN Throws(createError(message, code))
               ELSE Returns(undefined)
       ELSE Throws(createError(genericErrorMessage, undefined))

\* the value checkJobStatusResponse returns or the Error it throws
checkJobStatusResponse(response) ==
    LET results == response.results
        error == response.error
    IN IF error # {}
       THEN LET e == CHOOSE x \in error : TRUE
            IN Throws(createError(e.message, e.status))
       ELSE IF results # {}
       THEN LET rs == CHOOSE x \in results : TRUE
                result == FindType(rs, JobResult)
                quit == FindType(rs, JobQuit)
                err == FindError(rs)
            IN IF result # {}
               THEN Returns((CHOOSE x \in result : TRUE).tag)
               ELSE IF quit # {}
               THEN LET message == IF err = {} THEN genericErrorMessage
                                   ELSE OrElse((CHOOSE x \in err : TRUE).message,
                                               genericErrorMessage)
                        code == IF err = {} THEN undefined
                                ELSE (CHOOSE x \in err : TRUE).code
                    IN Throws(createError(message, code))
               ELSE Returns(undefined)
       ELSE Throws(createError(genericErrorMessage, undefined))

\* A status payload as far as its evaluation reads it: whether it has an
\* error and results, the tag of its first JobResult, whether it has a
\* JobQuit, and the message and code of its first record whose $type ends
\* with "error"
View(p) ==
    LET rs == IF p.results = {} THEN << >> ELSE CHOOSE x \in p.results : TRUE
    IN [error |-> p.error,
        hasResults |-> p.results # {},
        jobResult |-> {[tag |-> r.tag] : r \in FindType(rs, JobResult)},
        hasJobQuit |-> \E i \in Indices(rs) : rs[i].type = JobQuit,
        errorRecord |-> {[message |-> r.message, code |-> r.code] : r \in FindError(rs)}]

\* the status payloads a run receives, each with what checkJobStatusResponse
\* makes of it
StatusResponses ==
    {[view |-> View(p), status |-> checkJobStatusResponse(p)] :
        p \in StatusPayloads(MaxResults)}

----------------------------------------------------------------------------
(* StatusSpec: checkJobStatusResponse applied to every payload *)

StatusInit ==
    /\ fnIn \in StatusPayloads(MaxStatusResults)
    /\ fnOut = [called |-> FALSE]
    /\ pc = "fn" /\ itemId = undefined /\ options = <<>> /\ hasWebSocket = FALSE
    /\ requests = <<>> /\ portalUrl = undefined /\ portalItemInfo = <<>>
    /\ apiServiceUrl = undefined
    /\ bearerToken = undefined /\ ticket = undefined /\ outcome = <<>>
    /\ socket = "none" /\ settled = FALSE /\ lastEvent = <<>>
    /\ nPolls = 0

EvaluateStatus ==
    /\ fnOut.called = FALSE
    /\ fnOut' = [called |-> TRUE] @@ checkJobStatusResponse(fnIn)
    /\ UNCHANGED <<fnIn, runVars>>

StatusNext == EvaluateStatus

StatusSpec == StatusInit /\ [][StatusNext]_vars

----------------------------------------------------------------------------
(* Parameters: RunOptions.parameters and the marshalling loop of startJob *)

\* the parameter names a caller uses; two of them are canonical array indices
ParamNames == {<<"Title">>, <<"FeatureIds">>, <<"2">>, <<"10">>}

\* the integer a property name denotes when it is a canonical array index
\* ("2", "10"), -1 when it is any other string
ArrayIndex(name) ==
    IF name = <<"2">> THEN 2 ELSE IF name = <<"10">> THEN 10 ELSE -1

\* A parameter value is a function from property names: an object is its own
\* properties, a string or number has the one property "$primitive" and an
\* array the one property "$array".
String(tokens) == "$primitive" :> tokens
Array(items) == "$array" :> items

\* a MapValue, and two objects that are not quite one: an empty $type, no $type
MapValue == ("$type" :> <<"CIM">>) @@ ("item" :> <<"extent">>) @@ ("itemData" :> <<"data">>)
NamedMapValue == MapValue @@ ("name" :> <<"inner">>)
EmptyTypeValue == ("$type" :> <<>>) @@ ("item" :> <<"extent">>)
UntypedValue == "item" :> <<"extent">>

\* the values of a parameter
ParamValues ==
    {String(<<"asdf">>), String(<<>>), Array(<< <<"1">>, <<"2">>, <<"3">> >>),
     MapValue, NamedMapValue, EmptyTypeValue, UntypedValue}

\* an object literal as the caller writes it: name-value pairs, names distinct
Declarations(n) ==
    {d \in SeqsUpTo([name : ParamNames, value : ParamValues], n) :
        \A i, j \in DOMAIN d : i # j => d[i].name # d[j].name}

\* the indices I of d in ascending order: of the array index their names
\* denote (byIndex), or of their place in d
RECURSIVE SortIdx(_, _, _)
SortIdx(d, I, byIndex) ==
    IF I = {} THEN << >>
    ELSE LET first == CHOOSE i \in I : \A j \in I :
                        IF byIndex
                        THEN ArrayIndex(d[i].name) <= ArrayIndex(d[j].name)
                        ELSE i <= j
         IN <<first>> \o SortIdx(d, I \ {first}, byIndex)

\* the object a literal evaluates to: its own property names in the order
\* for...in visits them (array indices ascending, then the other names in
\* the order of creation), and the value of each
ObjectLiteral(d) ==
    LET ints == {i \in DOMAIN d : ArrayIndex(d[i].name) >= 0}
        order == SortIdx(d, ints, TRUE) \o SortIdx(d, DOMAIN d \ ints, FALSE)
    IN [keys |-> [k \in DOMAIN order |-> d[order[k]].name],
        val |-> [nm \in {d[i].name : i \in DOMAIN d} |->
                    d[CHOOSE i \in DOMAIN d : d[i].name = nm].value]]


\* Array.isArray(value)
IsArray(value) == "$array" \in DOMAIN value

\* (value as MapValue)?.$type
TypeOf(value) == IF "$type" \in DOMAIN value THEN value["$type"] ELSE undefined

\* the entry with the payload spread after the name: { name, ...value }
MarshalOne_SpreadAfterName(name, value) ==
    IF IsArray(value)
    THEN ("containsMultipleValues" :> TRUE) @@ ("name" :> name)
            @@ ("values" :> value["$array"])
    ELSE IF Truthy(TypeOf(value))
    THEN [f \in DOMAIN value \cup {"name"} |->
            IF f \in DOMAIN value THEN value[f] ELSE name]
    ELSE ("name" :> name) @@ ("value" :> value)

\* the entry startJob pushes for one parameter
MarshalOne(name, value) ==
    IF IsArray(value)
    THEN ("containsMultipleValues" :> TRUE) @@ ("name" :> name)
            @@ ("values" :> value["$array"])
    ELSE IF Truthy(TypeOf(value))
    THEN [f \in DOMAIN value \cup {"name"} |-> IF f = "name" THEN name ELSE value[f]]
    ELSE ("name" :> name) @@ ("value" :> value)

\* params after the loop of startJob; parameters is {} when the option is absent
MarshalParameters(parameters) ==
    IF parameters = {} THEN << >>
    ELSE LET obj == CHOOSE o \in parameters : TRUE
         IN [k \in DOMAIN obj.keys |-> MarshalOne(obj.keys[k], obj.val[obj.keys[k]])]

----------------------------------------------------------------------------
(* MarshalSpec: the marshalling loop applied to every parameters object *)

MarshalInit ==
    /\ fnIn \in Declarations(MaxParams)
    /\ fnOut = [called |-> FALSE]
    /\ pc = "fn" /\ itemId = undefined /\ options = <<>> /\ hasWebSocket = FALSE
    /\ requests = <<>> /\ portalUrl = undefined /\ portalItemInfo = <<>>
    /\ apiServiceUrl = undefined
    /\ bearerToken = undefined /\ ticket = undefined /\ outcome = <<>>
    /\ socket = "none" /\ settled = FALSE /\ lastEvent = <<>>
    /\ nPolls = 0

Marshal ==
    /\ fnOut.called = FALSE
    /\ fnOut' = [called |-> TRUE, params |-> MarshalParameters({ObjectLiteral(fnIn)})]
    /\ UNCHANGED <<fnIn, runVars>>

MarshalNext == Marshal

MarshalSpec == MarshalInit /\ [][MarshalNext]_vars

----------------------------------------------------------------------------
(* parseItemUrl. A URL is the sequence of its characters. *)

\* a character as the flag i of the regular expression compares it
Lower(c) ==
    CASE c = "A" -> "a" [] c = "B" -> "b" [] c = "C" -> "c" [] c = "D" -> "d" [] c = "E" -> "e" [] c = "F" -> "f"
      [] c = "G" -> "g" [] c = "H" -> "h" [] c = "I" -> "i" [] c = "J" -> "j" [] c = "K" -> "k" [] c = "L" -> "l" [] c = "M" -> "m"
      [] c = "N" -> "n" [] c = "O" -> "o" [] c = "P" -> "p" [] c = "Q" -> "q" [] c = "R" -> "r" [] c = "S" -> "s"
      [] c = "T" -> "t" [] c = "U" -> "u" [] c = "V" -> "v" [] c = "W" -> "w" [] c = "X" -> "x" [] c = "Y" -> "y" [] c = "Z" -> "z"
      [] OTHER -> c

\* the class [a-f0-9]
HexDigits == {"0", "1", "2", "3", "4", "5", "6", "7", "8", "9", "a", "b", "c", "d", "e", "f"}

\* "." in a pattern: any character
AnyChar == "<any>"

\* the pieces of the regular expression: https:// and http:// for https?:\/\/,
\* \/home\/item.html with its dot, and id=
HttpsScheme == <<"h", "t", "t", "p", "s", ":", "/", "/">>
HttpScheme == <<"h", "t", "t", "p", ":", "/", "/">>
ItemPage == <<"/", "h", "o", "m", "e", "/", "i", "t", "e", "m">> \o <<AnyChar>> \o <<"h", "t", "m", "l">>
IdEquals == <<"i", "d", "=">>

\* whether pattern matches url from position i on
MatchesAt(url, i, pattern) ==
    /\ i >= 1 /\ i + Len(pattern) - 1 <= Len(url)
    /\ \A k \in 1..Len(pattern) :
        pattern[k] = AnyChar \/ Lower(url[i + k - 1]) = pattern[k]

\* what parseItemUrl returns or throws. exec tries the shortest (https?:\/\/.*?)
\* first, and for it the shortest .*? before id=; ([a-f0-9]+) takes every
\* hex digit that follows.
parseItemUrl(url) ==
    LET afterScheme == IF MatchesAt(url, 1, HttpsScheme) THEN Len(HttpsScheme) + 1
                       ELSE IF MatchesAt(url, 1, HttpScheme) THEN Len(HttpScheme) + 1
                       ELSE 0
        IdAt(q) == /\ MatchesAt(url, q, IdEquals)
                   /\ q + Len(IdEquals) <= Len(url)
                   /\ Lower(url[q + Len(IdEquals)]) \in HexDigits
        IdsAfter(p) == {q \in (p + Len(ItemPage))..Len(url) : IdAt(q)}
        pages == {p \in 1..Len(url) :
                    /\ afterScheme > 0 /\ p >= afterScheme
                    /\ MatchesAt(url, p, ItemPage)
                    /\ IdsAfter(p) # {}}
    IN IF pages = {}
       THEN Throws(<<"The item URL is invalid.">>)
       ELSE LET p == CHOOSE x \in pages : \A y \in pages : x <= y
                q == CHOOSE x \in IdsAfter(p) : \A y \in IdsAfter(p) : x <= y
                first == q + Len(IdEquals)
                hex == {j \in first..Len(url) : \A k \in first..j : Lower(url[k]) \in HexDigits}
                last == CHOOSE x \in hex : \A y \in hex : y <= x
            IN Returns([itemId |-> SubSeq(url, first, last),
                        portalUrl |-> SubSeq(url, 1, p - 1)])

\* The URLs parseItemUrl is applied to, by their parts: scheme, host and
\* path, the page, the query before the id parameter, the id parameter
\* (absent, or id= with its value) and what follows it
UrlSchemes == {<<"h", "t", "t", "p", "s", ":", "/", "/">>, <<"h", "t", "t", "p", ":", "/", "/">>, <<"H", "T", "T", "P", "S", ":", "/", "/">>, << >>, <<"f", "t", "p", ":", "/", "/">>}
UrlHosts == {<<"w", "w", "w", ".", "a", "r", "c", "g", "i", "s", ".", "c", "o", "m">>, <<"s", "e", "r", "v", "e", "r", "/", "p", "o", "r", "t", "a", "l">>}
UrlPages == {<<"/", "h", "o", "m", "e", "/", "i", "t", "e", "m", ".", "h", "t", "m", "l">>,
             <<"/", "h", "o", "m", "e", "/", "i", "t", "e", "m", "_", "h", "t", "m", "l">>,
             <<"/", "i", "t", "e", "m", ".", "h", "t", "m", "l">>,
             << >>}
UrlQueries == {<<"?">>, <<"?", "f", "=", "1", "&">>, <<"?", "u", "i", "d", "=", "1", "2", "&">>, << >>}
UrlIds ==
    {[present |-> FALSE, hex |-> << >>, rest |-> << >>],
     [present |-> TRUE, hex |-> << >>, rest |-> << >>],
     [present |-> TRUE, hex |-> <<"2", "5", "c", "2", "7", "8", "b", "d">>, rest |-> << >>],
     [present |-> TRUE, hex |-> <<"2", "5", "C", "2">>, rest |-> << >>],
     [present |-> TRUE, hex |-> <<"2", "5", "c", "2", "7", "8", "b", "d">>, rest |-> <<"&", "f", "=", "1">>]}
ItemUrls == [scheme : UrlSchemes, host : UrlHosts, page : UrlPages, query : UrlQueries, id : UrlIds]

\* the URL of its parts
UrlOf(u) ==
    u.scheme \o u.host \o u.page \o u.query
        \o (IF u.id.present THEN IdEquals \o u.id.hex \o u.id.rest ELSE << >>)

(* ParseSpec: parseItemUrl applied to every such URL *)

ParseInit ==
    /\ fnIn \in ItemUrls
    /\ fnOut = [called |-> FALSE]
    /\ pc = "fn" /\ itemId = undefined /\ options = <<>> /\ hasWebSocket = FALSE
    /\ requests = <<>> /\ portalUrl = undefined /\ portalItemInfo = <<>>
    /\ apiServiceUrl = undefined
    /\ bearerToken = undefined /\ ticket = undefined /\ outcome = <<>>
    /\ socket = "none" /\ settled = FALSE /\ lastEvent = <<>>
    /\ nPolls = 0

Parse ==
    /\ fnOut.called = FALSE
    /\ fnOut' = [called |-> TRUE, url |-> UrlOf(fnIn)] @@ parseItemUrl(UrlOf(fnIn))
    /\ UNCHANGED <<fnIn, runVars>>

ParseNext == Parse

ParseSpec == ParseInit /\ [][ParseNext]_vars

----------------------------------------------------------------------------
(* The arguments of run and the responses of the portal and the service *)

ItemIds == {undefined, << >>, <<"item1">>}
UpstreamTokens == {undefined, << >>, <<"portal-token">>}
PortalUrlOptions == {undefined, <<"https:", "/", "/", "portal">>,
                     <<"https:", "/", "/", "portal", "/">>}

\* the parameters of the run of the test
TestParameters ==
    ObjectLiteral(<< [name |-> <<"parameter1">>, value |-> String(<<"asdf">>)],
                     [name |-> <<"parameter2">>,
                      value |-> Array(<< <<"1">>, <<"2">>, <<"3">> >>)] >>)

RunOptions ==
    [token : UpstreamTokens, portalUrl : PortalUrlOptions, usePolling : BOOLEAN,
     parameters : {{}, {TestParameters}}, culture : {undefined}, dpi : {undefined},
     resultFileName : {<<"My Report">>}, format : {<<"pdf">>}]

\* what a fetch can come to: it rejects, it resolves to a response that is not
\* ok, to one whose json() rejects, or to one whose json() resolves to a value
FetchRejects == [kind |-> "rejects", error |-> <<"Failed to fetch">>]
NotOk == [kind |-> "notok", status |-> <<"500">>, statusText |-> <<"Server Error">>]
BadJson == [kind |-> "badjson", error |-> <<"Unexpected token">>]
Ok(json) == [kind |-> "ok", json |-> json]
Failures == {FetchRejects, NotOk, BadJson}

GeocortexPrinting == <<"Geocortex Printing">>
GeocortexReporting == <<"Geocortex Reporting">>

\* PortalItemResponse; typeKeywords and error are optional
PortalItemResponses ==
    [typeKeywords : {{}, {<< >>}, {<< <<"Web Map">> >>}, {<<GeocortexPrinting>>},
                     {<< <<"Web Map">>, GeocortexReporting >>}},
     url : {undefined, << >>, <<"https:", "/", "/", "svc", "/">>,
            <<"https:", "/", "/", "svc">>},
     error : {{}, {[message |-> <<"Item does not exist">>, code |-> <<"400">>]}}]

\* TokenResponse
TokenResponses ==
    {[response |-> {}]} \cup
    {[response |-> {[token |-> t]}] : t \in {undefined, << >>, <<"R">>}}

\* JobRunResponse
JobRunResponses ==
    {[response |-> {}]} \cup
    {[response |-> {[ticket |-> t]}] : t \in {undefined, << >>, <<"TICK">>}}

\* a message event of the socket, as far as its listener reads it: data that
\* JSON.parse rejects, or a WsJobStatusResponse with its final flag and what
\* checkJobStatusResponse makes of it
SocketMessages ==
    {[parses |-> FALSE, final |-> FALSE, status |-> Returns(undefined)]}
    \cup {[parses |-> TRUE, final |-> f, status |-> j.status] :
            f \in BOOLEAN, j \in StatusResponses}

\* the event handled last
NoEvent == [type |-> "none"]
ResponseEvent(type, r) == [type |-> type, response |-> r]
MessageEvent(m) == [type |-> "message", message |-> m]
ErrorEvent == [type |-> "error"]
CloseEvent == [type |-> "close"]
TimerEvent == [type |-> "timer"]

----------------------------------------------------------------------------
(* Strings and requests *)

\* s.replace(/\/$/, "")
StripTrailingSlash(s) ==
    IF Len(s) > 0 /\ s[Len(s)] = "/" THEN SubSeq(s, 1, Len(s) - 1) ELSE s

\* s.replace(/^http/, "ws"); a scheme is the first token of a URL
ReplaceHttpByWs(s) ==
    IF Len(s) > 0 /\ s[1] = "https:" THEN <<"wss:">> \o Tail(s)
    ELSE IF Len(s) > 0 /\ s[1] = "http:" THEN <<"ws:">> \o Tail(s)
    ELSE s

DefaultPortalUrl == <<"https:", "/", "/", "www.arcgis.com">>

JsonHeaders == "Content-Type" :> <<"application/json">>
NoHeaders == [h \in {} |-> << >>]

Request(kind, method, url, headers, body) ==
    [kind |-> kind, method |-> method, url |-> url, headers |-> headers, body |-> body]

NoBody == [empty |-> TRUE]

----------------------------------------------------------------------------
(* run: the requests it issues *)

\* getPortalItemInfo: the URL of the item lookup
ItemInfoUrl(id, portal, token) ==
    portal \o <<"/", "sharing", "/", "content", "/", "items", "/">> \o Template(id)
        \o <<"?f=json&token=">> \o OrElse(token, << >>)

\* getBearerToken: the token exchange
TokenRequest(serviceUrl, portal, token) ==
    Request("token", "POST", serviceUrl \o <<"/", "auth", "/", "token", "/", "run">>,
            JsonHeaders, [accessToken |-> token, portalUrl |-> portal])

\* the Authorization header attached whatever the credential
JobRunHeaders_AlwaysAuthorization(bearer) == JsonHeaders @@ ("Authorization" :> bearer)

\* startJob: the headers of the job-run request
JobRunHeaders(bearer) ==
    IF Truthy(bearer) THEN JsonHeaders @@ ("Authorization" :> bearer) ELSE JsonHeaders

\* startJob: the job-run request
JobRunRequest(portal, id, serviceUrl, bearer, opts) ==
    Request("jobrun", "POST", serviceUrl \o <<"/", "job", "/", "run">>,
            JobRunHeaders(bearer),
            [template |-> [itemId |-> id, portalUrl |-> portal,
                           title |-> opts.resultFileName],
             parameters |-> MarshalParameters(opts.parameters),
             culture |-> opts.culture, dpi |-> opts.dpi, format |-> opts.format])

\* watchJobWithSocket: the URL the socket is opened on
SocketUrl(serviceUrl, tick) ==
    ReplaceHttpByWs(serviceUrl) \o <<"/", "job", "/", "artifacts?ticket=">> \o Template(tick)

\* the status request with the job's ticket left out
PollRequest_WithoutTicket(serviceUrl, tick) ==
    Request("poll", "GET", serviceUrl \o <<"/", "job", "/", "artifacts?ticket=">>,
            JsonHeaders, NoBody)

\* pollJob: the status request
PollRequest(serviceUrl, tick) ==
    Request("poll", "GET", serviceUrl \o <<"/", "job", "/", "artifacts?ticket=">>
                \o Template(tick), JsonHeaders, NoBody)

\* the download URL with the ticket and the tag in each other's place
DownloadUrl_Swapped(serviceUrl, tick, tag) ==
    serviceUrl \o <<"/", "job", "/", "result?ticket=">> \o Template(tag)
        \o <<"&tag=">> \o Template(tick)

\* run: the URL of the completed report
DownloadUrl(serviceUrl, tick, tag) ==
    serviceUrl \o <<"/", "job", "/", "result?ticket=">> \o Template(tick)
        \o <<"&tag=">> \o Template(tag)

\* isValidItemType without the search for the two keywords
isValidItemType_AnyKeywords(info) == info.typeKeywords # {}

\* isValidItemType
isValidItemType(info) ==
    /\ info.typeKeywords # {}
    /\ LET kw == CHOOSE k \in info.typeKeywords : TRUE
       IN \E i \in Indices(kw) : kw[i] = GeocortexPrinting \/ kw[i] = GeocortexReporting

----------------------------------------------------------------------------
(* run: one action for each stretch of code between two awaits *)

\* a local that has not been assigned
NotAssigned == [assigned |-> FALSE]

Pending == [kind |-> "pending", value |-> undefined]
Resolved(v) == [kind |-> "resolved", value |-> v]
Rejected(m) == [kind |-> "rejected", value |-> m]

Init ==
    /\ pc = "init"
    /\ itemId \in ItemIds
    /\ options \in RunOptions
    /\ hasWebSocket \in BOOLEAN
    /\ requests = << >>
    /\ portalUrl = undefined /\ portalItemInfo = NotAssigned
    /\ apiServiceUrl = undefined
    /\ bearerToken = undefined /\ ticket = undefined
    /\ outcome = Pending
    /\ socket = "none" /\ settled = FALSE
    /\ lastEvent = NoEvent
    /\ nPolls = 0
    /\ fnIn = << >> /\ fnOut = << >>

\* the error is recorded and the run goes on waiting
Reject_Swallowed(message) ==
    /\ pc' = pc
    /\ outcome' = Rejected(message)

\* run throws: the promise it returned is rejected
Reject(message) ==
    /\ pc' = "failed"
    /\ outcome' = Rejected(message)

\* the end of watchJob with the tag of the socket or of pollJob: it throws
\* when there is no tag, or returns it and run returns the download URL
Finish(tag) ==
    IF ~Truthy(tag)
    THEN Reject(createError(<<"The service did not provide a tag.">>, undefined))
    ELSE /\ pc' = "done"
         /\ outcome' = Resolved(DownloadUrl(apiServiceUrl, ticket, tag))

\* pollJob enters its loop: await delay(1000)
StartDelay ==
    /\ pc' = "delay"
    /\ UNCHANGED outcome

\* the check of itemId with === undefined for !
ItemIdMissing_UndefinedOnly(id) == id = undefined

\* run: if (!itemId)
ItemIdMissing(id) == ~Truthy(id)

\* the socket condition without the test of the WebSocket capability
UseSocket_IgnoresCapability(usePolling, webSocket) == ~usePolling

\* watchJob: whether it watches the job with a socket first
UseSocket(usePolling, webSocket) == ~usePolling /\ webSocket

\* the token of the response returned as it is
BearerOf_NoPrefix(token) == OrElse(token, << >>)

\* getBearerToken: the credential it makes of the token of the response
BearerOf(token) == <<"Bearer ">> \o OrElse(token, << >>)

\* run is called: lines 189-202, up to the fetch of getPortalItemInfo
Run ==
    /\ pc = "init"
    /\ IF ItemIdMissing(itemId)
       THEN /\ Reject(<<"itemId is required.">>)
            /\ UNCHANGED <<portalUrl, requests>>
       ELSE LET portal == OrElse(IF options.portalUrl = undefined THEN undefined
                                 ELSE StripTrailingSlash(options.portalUrl),
                                 DefaultPortalUrl)
            IN /\ portalUrl' = portal
               /\ requests' = Append(requests,
                    Request("lookup", "GET", ItemInfoUrl(itemId, portal, options.token),
                            NoHeaders, NoBody))
               /\ pc' = "lookup"
               /\ UNCHANGED outcome
    /\ UNCHANGED <<itemId, options, hasWebSocket, portalItemInfo, apiServiceUrl, bearerToken, ticket,
                   socket, settled, lastEvent, nPolls, fnVars>>

\* the lookup that does not look for an error in the payload
LookupResponse_IgnoresEmbeddedError ==
    /\ pc = "lookup"
    /\ \E r \in Failures \cup {Ok(j) : j \in PortalItemResponses} :
        /\ lastEvent' = ResponseEvent("lookup", r)
        /\ IF r.kind = "rejects" \/ r.kind = "badjson"
           THEN Reject(r.error) /\ UNCHANGED <<portalItemInfo, apiServiceUrl, bearerToken, requests>>
           ELSE IF r.kind = "notok"
           THEN /\ Reject(createError(r.statusText, r.status))
                /\ UNCHANGED <<portalItemInfo, apiServiceUrl, bearerToken, requests>>
           ELSE IF ~isValidItemType(r.json)
           THEN /\ Reject(<<"The item '">> \o itemId \o <<"' is not a valid template type.">>)
                /\ UNCHANGED <<portalItemInfo, apiServiceUrl, bearerToken, requests>>
           ELSE IF ~Truthy(r.json.url)
           THEN /\ Reject(<<"The item '">> \o itemId \o <<"' does not contain a service URL.">>)
                /\ UNCHANGED <<portalItemInfo, apiServiceUrl, bearerToken, requests>>
           ELSE LET service == r.json.url \o <<"service">>
                IN /\ portalItemInfo' = r.json
                   /\ apiServiceUrl' = service
                   /\ UNCHANGED outcome
                   /\ IF ~Truthy(options.token)
                      THEN /\ bearerToken' = << >>
                           /\ requests' = Append(requests,
                                JobRunRequest(portalUrl, itemId, service, << >>, options))
                           /\ pc' = "jobrun"
                      ELSE /\ requests' = Append(requests,
                                TokenRequest(service, portalUrl, options.token))
                           /\ pc' = "token"
                           /\ UNCHANGED bearerToken
    /\ UNCHANGED <<itemId, options, hasWebSocket, portalUrl, ticket, socket, settled,
                   nPolls, fnVars>>

\* the item lookup answers: the rest of getPortalItemInfo, lines 204-220 of
\* run, and getBearerToken and startJob up to their first fetch
LookupResponse ==
    /\ pc = "lookup"
    /\ \E r \in Failures \cup {Ok(j) : j \in PortalItemResponses} :
        /\ lastEvent' = ResponseEvent("lookup", r)
        /\ IF r.kind = "rejects" \/ r.kind = "badjson"
           THEN Reject(r.error) /\ UNCHANGED <<portalItemInfo, apiServiceUrl, bearerToken, requests>>
           ELSE IF r.kind = "notok"
           THEN /\ Reject(createError(r.statusText, r.status))
                /\ UNCHANGED <<portalItemInfo, apiServiceUrl, bearerToken, requests>>
           ELSE IF r.json.error # {}
           THEN /\ LET e == CHOOSE x \in r.json.error : TRUE
                   IN Reject(createError(e.message, e.code))
                /\ UNCHANGED <<portalItemInfo, apiServiceUrl, bearerToken, requests>>
           ELSE IF ~isValidItemType(r.json)
           THEN /\ Reject(<<"The item '">> \o itemId \o <<"' is not a valid template type.">>)
                /\ UNCHANGED <<portalItemInfo, apiServiceUrl, bearerToken, requests>>
           ELSE IF ~Truthy(r.json.url)
           THEN /\ Reject(<<"The item '">> \o itemId \o <<"' does not contain a service URL.">>)
                /\ UNCHANGED <<portalItemInfo, apiServiceUrl, bearerToken, requests>>
           ELSE LET service == r.json.url \o <<"service">>
                IN /\ portalItemInfo' = r.json
                   /\ apiServiceUrl' = service
                   /\ UNCHANGED outcome
                   /\ IF ~Truthy(options.token)
                      THEN /\ bearerToken' = << >>
                           /\ requests' = Append(requests,
                                JobRunRequest(portalUrl, itemId, service, << >>, options))
                           /\ pc' = "jobrun"
                      ELSE /\ requests' = Append(requests,
                                TokenRequest(service, portalUrl, options.token))
                           /\ pc' = "token"
                           /\ UNCHANGED bearerToken
    /\ UNCHANGED <<itemId, options, hasWebSocket, portalUrl, ticket, socket, settled,
                   nPolls, fnVars>>

\* the token exchange answers: the rest of getBearerToken, and startJob up
\* to its fetch
TokenResponse ==
    /\ pc = "token"
    /\ \E r \in Failures \cup {Ok(j) : j \in TokenResponses} :
        /\ lastEvent' = ResponseEvent("token", r)
        /\ IF r.kind = "rejects"
           THEN /\ Reject(<<"A network error occurred fetching an authorization token.">>)
                /\ UNCHANGED <<bearerToken, requests>>
           ELSE IF r.kind = "notok"
           THEN /\ Reject(createError(r.statusText, r.status))
                /\ UNCHANGED <<bearerToken, requests>>
           ELSE IF r.kind = "badjson"
           THEN Reject(r.error) /\ UNCHANGED <<bearerToken, requests>>
           ELSE LET token == IF r.json.response = {} THEN undefined
                             ELSE (CHOOSE x \in r.json.response : TRUE).token
                    bearer == BearerOf(token)
                IN /\ bearerToken' = bearer
                   /\ requests' = Append(requests,
                        JobRunRequest(portalUrl, itemId, apiServiceUrl, bearer, options))
                   /\ pc' = "jobrun"
                   /\ UNCHANGED outcome
    /\ UNCHANGED <<itemId, options, hasWebSocket, portalUrl, portalItemInfo, apiServiceUrl, ticket,
                   socket, settled, nPolls, fnVars>>

\* startJob without the test of the ticket
JobRunResponse_AcceptsEmptyTicket ==
    /\ pc = "jobrun"
    /\ \E r \in Failures \cup {Ok(j) : j \in JobRunResponses} :
        /\ lastEvent' = ResponseEvent("jobrun", r)
        /\ IF r.kind = "rejects"
           THEN /\ Reject(<<"A network error occurred attempting to run a job.">>)
                /\ UNCHANGED <<ticket, requests, socket>>
           ELSE IF r.kind = "notok"
           THEN /\ Reject(createError(r.statusText, r.status))
                /\ UNCHANGED <<ticket, requests, socket>>
           ELSE IF r.kind = "badjson"
           THEN Reject(r.error) /\ UNCHANGED <<ticket, requests, socket>>
           ELSE IF r.json.response = {}
           THEN /\ Reject(createError(<<"The service did not provide a ticket.">>, undefined))
                /\ UNCHANGED <<ticket, requests, socket>>
           ELSE LET tick == (CHOOSE x \in r.json.response : TRUE).ticket
                IN /\ ticket' = tick
                   /\ UNCHANGED outcome
                   /\ IF UseSocket(options.usePolling, hasWebSocket)
                      THEN /\ socket' = "open"
                           /\ requests' = Append(requests,
                                Request("socket", "GET", SocketUrl(apiServiceUrl, tick),
                                        NoHeaders, NoBody))
                           /\ pc' = "socket"
                      ELSE /\ pc' = "delay"
                           /\ UNCHANGED <<requests, socket>>
    /\ UNCHANGED <<itemId, options, hasWebSocket, portalUrl, portalItemInfo, apiServiceUrl, bearerToken,
                   settled, nPolls, fnVars>>

\* the job-run request answers: the rest of startJob, and watchJob up to the
\* socket it opens or the delay pollJob starts with
JobRunResponse ==
    /\ pc = "jobrun"
    /\ \E r \in Failures \cup {Ok(j) : j \in JobRunResponses} :
        /\ lastEvent' = ResponseEvent("jobrun", r)
        /\ IF r.kind = "rejects"
           THEN /\ Reject(<<"A network error occurred attempting to run a job.">>)
                /\ UNCHANGED <<ticket, requests, socket>>
           ELSE IF r.kind = "notok"
           THEN /\ Reject(createError(r.statusText, r.status))
                /\ UNCHANGED <<ticket, requests, socket>>
           ELSE IF r.kind = "badjson"
           THEN Reject(r.error) /\ UNCHANGED <<ticket, requests, socket>>
           ELSE IF r.json.response = {}
                   \/ ~Truthy((CHOOSE x \in r.json.response : TRUE).ticket)
           THEN /\ Reject(createError(<<"The service did not provide a ticket.">>, undefined))
                /\ UNCHANGED <<ticket, requests, socket>>
           ELSE LET tick == (CHOOSE x \in r.json.response : TRUE).ticket
                IN /\ ticket' = tick
                   /\ UNCHANGED outcome
                   /\ IF UseSocket(options.usePolling, hasWebSocket)
                      THEN /\ socket' = "open"
                           /\ requests' = Append(requests,
                                Request("socket", "GET", SocketUrl(apiServiceUrl, tick),
                                        NoHeaders, NoBody))
                           /\ pc' = "socket"
                      ELSE /\ pc' = "delay"
                           /\ UNCHANGED <<requests, socket>>
    /\ UNCHANGED <<itemId, options, hasWebSocket, portalUrl, portalItemInfo, apiServiceUrl, bearerToken,
                   settled, nPolls, fnVars>>

\* status requests issued on every tick of a timer, whether or not the one
\* before has been answered
DelayElapsed_Overlapping ==
    /\ pc \in {"delay", "poll"}
    /\ nPolls < MaxPolls
    /\ requests' = Append(requests, PollRequest(apiServiceUrl, ticket))
    /\ nPolls' = nPolls + 1
    /\ pc' = "poll"
    /\ lastEvent' = TimerEvent
    /\ UNCHANGED <<itemId, options, hasWebSocket, portalUrl, portalItemInfo, apiServiceUrl, bearerToken,
                   ticket, outcome, socket, settled, fnVars>>

\* the delay of pollJob elapses: the status request is issued
DelayElapsed ==
    /\ pc = "delay"
    /\ nPolls < MaxPolls
    /\ requests' = Append(requests, PollRequest(apiServiceUrl, ticket))
    /\ nPolls' = nPolls + 1
    /\ pc' = "poll"
    /\ lastEvent' = TimerEvent
    /\ UNCHANGED <<itemId, options, hasWebSocket, portalUrl, portalItemInfo, apiServiceUrl, bearerToken,
                   ticket, outcome, socket, settled, fnVars>>

\* the loop that gives up when a status response brings no tag
PollResponse_GivesUp ==
    /\ pc = "poll"
    /\ \E r \in Failures \cup {Ok(j) : j \in StatusResponses} :
        /\ lastEvent' = ResponseEvent("poll", r)
        /\ IF r.kind = "rejects"
           THEN Reject(<<"A network error occurred checking the job status.">>)
           ELSE IF r.kind = "notok"
           THEN Reject(createError(r.statusText, r.status))
           ELSE IF r.kind = "badjson"
           THEN Reject(r.error)
           ELSE IF r.json.status.throws THEN Reject(r.json.status.value)
           ELSE IF Truthy(r.json.status.value) THEN Finish(r.json.status.value)
           ELSE Reject(createError(<<"The service did not provide a tag.">>, undefined))
    /\ UNCHANGED <<itemId, options, hasWebSocket, requests, portalUrl, portalItemInfo, apiServiceUrl,
                   bearerToken, ticket, socket, settled, nPolls, fnVars>>

\* the loop that tries again after a status request that failed
PollResponse_RetriesFailure ==
    /\ pc = "poll"
    /\ \E r \in Failures \cup {Ok(j) : j \in StatusResponses} :
        /\ lastEvent' = ResponseEvent("poll", r)
        /\ IF r.kind = "rejects" \/ r.kind = "notok"
           THEN StartDelay
           ELSE IF r.kind = "badjson"
           THEN Reject(r.error)
           ELSE IF r.json.status.throws THEN Reject(r.json.status.value)
           ELSE IF Truthy(r.json.status.value) THEN Finish(r.json.status.value)
           ELSE StartDelay
    /\ UNCHANGED <<itemId, options, hasWebSocket, requests, portalUrl, portalItemInfo, apiServiceUrl,
                   bearerToken, ticket, socket, settled, nPolls, fnVars>>

\* the loop that ends with the first JobResult, whatever its tag
PollResponse_ReturnsAnyResult ==
    /\ pc = "poll"
    /\ \E r \in Failures \cup {Ok(j) : j \in StatusResponses} :
        /\ lastEvent' = ResponseEvent("poll", r)
        /\ IF r.kind = "rejects"
           THEN Reject(<<"A network error occurred checking the job status.">>)
           ELSE IF r.kind = "notok"
           THEN Reject(createError(r.statusText, r.status))
           ELSE IF r.kind = "badjson"
           THEN Reject(r.error)
           ELSE IF r.json.status.throws THEN Reject(r.json.status.value)
           ELSE IF Truthy(r.json.status.value) \/ r.json.view.jobResult # {}
           THEN Finish(r.json.status.value)
           ELSE StartDelay
    /\ UNCHANGED <<itemId, options, hasWebSocket, requests, portalUrl, portalItemInfo, apiServiceUrl,
                   bearerToken, ticket, socket, settled, nPolls, fnVars>>

\* the status request answers: the rest of the loop body of pollJob, then the
\* next delay, or the return of pollJob, watchJob and run
PollResponse ==
    /\ pc = "poll"
    /\ \E r \in Failures \cup {Ok(j) : j \in StatusResponses} :
        /\ lastEvent' = ResponseEvent("poll", r)
        /\ IF r.kind = "rejects"
           THEN Reject(<<"A network error occurred checking the job status.">>)
           ELSE IF r.kind = "notok"
           THEN Reject(createError(r.statusText, r.status))
           ELSE IF r.kind = "badjson"
           THEN Reject(r.error)
           ELSE IF r.json.status.throws THEN Reject(r.json.status.value)
           ELSE IF Truthy(r.json.status.value) THEN Finish(r.json.status.value)
           ELSE StartDelay
    /\ UNCHANGED <<itemId, options, hasWebSocket, requests, portalUrl, portalItemInfo, apiServiceUrl,
                   bearerToken, ticket, socket, settled, nPolls, fnVars>>

\* resolve(value) that takes effect at every call
Resolve_EveryCall(value) ==
    /\ settled' = TRUE
    /\ IF Truthy(value) THEN Finish(value) ELSE StartDelay

\* resolve(value) in a socket listener: the first call settles the promise of
\* watchJobWithSocket and watchJob goes on, to return the tag or to poll; a
\* later call does nothing
Resolve(value) ==
    IF settled THEN UNCHANGED <<settled, pc, outcome>>
    ELSE /\ settled' = TRUE
         /\ IF Truthy(value) THEN Finish(value) ELSE StartDelay

\* the listener whose exceptions reject the run
OnMessage_Surfaces(m) ==
    /\ socket = "open"
    /\ lastEvent' = IF settled THEN lastEvent ELSE MessageEvent(m)
    /\ IF ~m.parses
       THEN Reject(<<"Unexpected token">>) /\ UNCHANGED <<socket, settled>>
       ELSE IF m.final
       THEN socket' = "closed" /\ Resolve(undefined)
       ELSE IF m.status.throws
       THEN Reject(m.status.value) /\ UNCHANGED <<socket, settled>>
       ELSE IF Truthy(m.status.value)
       THEN socket' = "closed" /\ Resolve(m.status.value)
       ELSE Resolve(undefined) /\ UNCHANGED socket
    /\ UNCHANGED <<itemId, options, hasWebSocket, requests, portalUrl, portalItemInfo, apiServiceUrl,
                   bearerToken, ticket, nPolls, fnVars>>

\* the listener that leaves the socket open after a final message
OnMessage_FinalKeepsListening(m) ==
    /\ socket = "open"
    /\ lastEvent' = IF settled THEN lastEvent ELSE MessageEvent(m)
    /\ IF ~m.parses
       THEN UNCHANGED <<socket, settled, pc, outcome>>
       ELSE IF m.final
       THEN Resolve(undefined) /\ UNCHANGED socket
       ELSE IF m.status.throws
       THEN UNCHANGED <<socket, settled, pc, outcome>>
       ELSE IF Truthy(m.status.value)
       THEN socket' = "closed" /\ Resolve(m.status.value)
       ELSE Resolve(undefined) /\ UNCHANGED socket
    /\ UNCHANGED <<itemId, options, hasWebSocket, requests, portalUrl, portalItemInfo, apiServiceUrl,
                   bearerToken, ticket, nPolls, fnVars>>

\* the listener that evaluates a message before it looks at final
OnMessage_EvaluatesFinal(m) ==
    /\ socket = "open"
    /\ lastEvent' = IF settled THEN lastEvent ELSE MessageEvent(m)
    /\ IF ~m.parses
       THEN UNCHANGED <<socket, settled, pc, outcome>>
       ELSE IF m.status.throws
       THEN UNCHANGED <<socket, settled, pc, outcome>>
       ELSE IF Truthy(m.status.value)
       THEN socket' = "closed" /\ Resolve(m.status.value)
       ELSE IF m.final
       THEN socket' = "closed" /\ Resolve(undefined)
       ELSE Resolve(undefined) /\ UNCHANGED socket
    /\ UNCHANGED <<itemId, options, hasWebSocket, requests, portalUrl, portalItemInfo, apiServiceUrl,
                   bearerToken, ticket, nPolls, fnVars>>

\* the listener that waits for the next message when one brings no tag
OnMessage_WaitsForTag(m) ==
    /\ socket = "open"
    /\ lastEvent' = IF settled THEN lastEvent ELSE MessageEvent(m)
    /\ IF ~m.parses
       THEN UNCHANGED <<socket, settled, pc, outcome>>
       ELSE IF m.final
       THEN socket' = "closed" /\ Resolve(undefined)
       ELSE IF m.status.throws
       THEN UNCHANGED <<socket, settled, pc, outcome>>
       ELSE IF Truthy(m.status.value)
       THEN socket' = "closed" /\ Resolve(m.status.value)
       ELSE UNCHANGED <<socket, settled, pc, outcome>>
    /\ UNCHANGED <<itemId, options, hasWebSocket, requests, portalUrl, portalItemInfo, apiServiceUrl,
                   bearerToken, ticket, nPolls, fnVars>>

\* the "message" listener of watchJobWithSocket, lines 539-565, handles the
\* message m
OnMessage(m) ==
    /\ socket = "open"
    /\ lastEvent' = IF settled THEN lastEvent ELSE MessageEvent(m)
    /\ IF ~m.parses
       THEN UNCHANGED <<socket, settled, pc, outcome>>
       ELSE IF m.final
       THEN socket' = "closed" /\ Resolve(undefined)
       ELSE IF m.status.throws
       THEN UNCHANGED <<socket, settled, pc, outcome>>
       ELSE IF Truthy(m.status.value)
       THEN socket' = "closed" /\ Resolve(m.status.value)
       ELSE Resolve(undefined) /\ UNCHANGED socket
    /\ UNCHANGED <<itemId, options, hasWebSocket, requests, portalUrl, portalItemInfo, apiServiceUrl,
                   bearerToken, ticket, nPolls, fnVars>>

\* a message event is delivered to the socket
SocketMessage == \E m \in SocketMessages : OnMessage(m)

\* the error listener that rejects the run
SocketError_Rejects ==
    /\ socket = "open"
    /\ socket' = "errored"
    /\ lastEvent' = IF settled THEN lastEvent ELSE ErrorEvent
    /\ IF settled THEN UNCHANGED <<settled, pc, outcome>>
       ELSE settled' = TRUE /\ Reject(<<"WebSocket error">>)
    /\ UNCHANGED <<itemId, options, hasWebSocket, requests, portalUrl, portalItemInfo, apiServiceUrl,
                   bearerToken, ticket, nPolls, fnVars>>

\* the "error" listener of watchJobWithSocket, lines 567-570; the connection
\* that failed delivers nothing more
SocketError ==
    /\ socket = "open"
    /\ socket' = "errored"
    /\ lastEvent' = IF settled THEN lastEvent ELSE ErrorEvent
    /\ Resolve(undefined)
    /\ UNCHANGED <<itemId, options, hasWebSocket, requests, portalUrl, portalItemInfo, apiServiceUrl,
                   bearerToken, ticket, nPolls, fnVars>>

\* a "close" listener that settles the streaming attempt without a tag
SocketServerClose_FallsBack ==
    /\ socket = "open"
    /\ socket' = "serverclosed"
    /\ lastEvent' = IF settled THEN lastEvent ELSE CloseEvent
    /\ Resolve(undefined)
    /\ UNCHANGED <<itemId, options, hasWebSocket, requests, portalUrl, portalItemInfo,
                   apiServiceUrl, bearerToken, ticket, nPolls, fnVars>>

\* the server closes the connection: watchJobWithSocket has no "close" listener
SocketServerClose ==
    /\ socket = "open"
    /\ socket' = "serverclosed"
    /\ lastEvent' = IF settled THEN lastEvent ELSE CloseEvent
    /\ UNCHANGED <<pc, itemId, options, hasWebSocket, requests, portalUrl, portalItemInfo,
                   apiServiceUrl, bearerToken, ticket, outcome, settled, nPolls, fnVars>>

Next ==
    \/ Run
    \/ LookupResponse
    \/ TokenResponse
    \/ JobRunResponse
    \/ DelayElapsed
    \/ PollResponse
    \/ SocketMessage
    \/ SocketError
    \/ SocketServerClose

Spec == Init /\ [][Next]_vars

\* One run with its item id: the timer of delay fires and every fetch comes
\* to an end, while nothing obliges the socket to deliver an event
FairInit ==
    /\ Init
    /\ itemId = <<"item1">>
    /\ options.portalUrl = undefined /\ options.parameters = {}
    /\ options.token \in {undefined, <<"portal-token">>}

Fairness ==
    /\ WF_vars(Run)
    /\ WF_vars(LookupResponse)
    /\ WF_vars(TokenResponse)
    /\ WF_vars(JobRunResponse)
    /\ WF_vars(DelayElapsed)
    /\ WF_vars(PollResponse)

FairSpec == FairInit /\ [][Next]_vars /\ Fairness

\* One run whose caller passes, besides the options RunOptions declares, the
\* properties runToken and serviceUrl, which RunOptions does not declare and
\* no line of run reads
UndeclaredOptions ==
    {[runToken |-> undefined, serviceUrl |-> undefined],
     [runToken |-> <<"run-token">>, serviceUrl |-> <<"https:", "/", "/", "direct", "/", "service">>]}

UndeclaredInit ==
    /\ pc = "init"
    /\ itemId = <<"item1">>
    /\ options \in {o @@ x : o \in {p \in RunOptions : p.portalUrl = undefined /\ p.parameters = {}
                                                     /\ p.token # << >>},
                             x \in UndeclaredOptions}
    /\ hasWebSocket \in BOOLEAN
    /\ requests = << >>
    /\ portalUrl = undefined /\ portalItemInfo = NotAssigned
    /\ apiServiceUrl = undefined
    /\ bearerToken = undefined /\ ticket = undefined
    /\ outcome = Pending
    /\ socket = "none" /\ settled = FALSE
    /\ lastEvent = NoEvent
    /\ nPolls = 0
    /\ fnIn = << >> /\ fnOut = << >>

UndeclaredSpec == UndeclaredInit /\ [][Next]_vars

-----------------------------------------------------------------------------
(* getItemMetadata: one action for each stretch of code between two awaits *)

\* the portalUrl argument of getItemMetadata, which it uses as it is given
MetadataPortalUrls == {<<"https:", "/", "/", "portal">>,
                       <<"https:", "/", "/", "portal", "/">>}

\* the controls of a metadata response, lengths in their own units
MetadataControls ==
    {[controlType |-> <<"Map">>, purpose |-> <<"MainMap">>, height |-> 300, width |-> 500,
      units |-> <<"HundredsOfAnInch">>],
     [controlType |-> <<"Map">>, purpose |-> <<"MainMap">>, height |-> 1200, width |-> 800,
      units |-> <<"TenthsOfAMillimeter">>],
     [controlType |-> <<"Legend">>, purpose |-> <<"Legend">>, height |-> 40, width |-> 60,
      units |-> <<"Millimeters">>]}

\* the JSON of a metadata response: response, its parameters and its
\* controls are optional, and parameters may be an empty array
MetadataResponses ==
    {[response |-> {}]} \cup
    {[response |-> {[parameters |-> p, controls |-> c]}] :
        p \in {{}, {<< >>}, {<<"Title">>}},
        c \in {{}, {<< >>}} \cup {{<<x>>} : x \in MetadataControls}}

\* what the metadata request comes to: fetch rejects, or a response with its
\* ok flag and a body that response.json() parses or rejects
MetadataReplies ==
    {FetchRejects} \cup
    {[kind |-> "answered", ok |-> ok, body |-> b] :
        ok \in BOOLEAN, b \in {BadJson} \cup {Ok(j) : j \in MetadataResponses}}

\* `${error}` of an Error object
ErrorText(name, message) == <<name, ": ">> \o message

\* convertToMillimeters; lengths are integers, the result in thousandths of a
\* millimetre: (value / 100) * 25.4 mm is value * 254 of them
convertToMillimeters(value, units) ==
    IF units = <<"HundredsOfAnInch">> THEN value * 254
    ELSE IF units = <<"TenthsOfAMillimeter">> THEN value * 100
    ELSE value * 1000

\* marshalControlProperties
marshalControlProperties(controls) ==
    IF controls = {} THEN << >>
    ELSE LET cs == CHOOSE x \in controls : TRUE
         IN [i \in DOMAIN cs |->
                [controlType |-> cs[i].controlType,
                 purpose |-> cs[i].purpose,
                 height |-> convertToMillimeters(cs[i].height, cs[i].units),
                 width |-> convertToMillimeters(cs[i].width, cs[i].units)]]

\* getItemMetadata: the headers of the metadata request
MetadataHeaders(token, bearer) ==
    IF Truthy(token) THEN JsonHeaders @@ ("Authorization" :> (<<"Bearer ">> \o bearer))
    ELSE JsonHeaders

\* getItemMetadata: the metadata request
MetadataRequest(portal, id, serviceUrl, token, bearer) ==
    Request("metadata", "POST", serviceUrl \o <<"/", "job", "/", "metadata">>,
            MetadataHeaders(token, bearer),
            [template |-> [itemId |-> id, portalUrl |-> portal]])

\* the error getItemMetadata throws from its catch block
MetadataError(text) ==
    <<"An error occurred. Unable to get print template metadata. ">> \o text

\* the state before getItemMetadata(itemId, portalUrl, token) is called; the
\* token is kept in options
MetadataInit ==
    /\ pc = "metadata"
    /\ itemId \in ItemIds
    /\ portalUrl \in MetadataPortalUrls
    /\ options \in [token : UpstreamTokens]
    /\ hasWebSocket = FALSE
    /\ requests = << >>
    /\ portalItemInfo = NotAssigned
    /\ apiServiceUrl = undefined
    /\ bearerToken = undefined /\ ticket = undefined
    /\ outcome = Pending
    /\ socket = "none" /\ settled = FALSE
    /\ lastEvent = NoEvent
    /\ nPolls = 0
    /\ fnIn = << >> /\ fnOut = << >>

\* getItemMetadata is called: up to the fetch of getPortalItemInfo
GetItemMetadata ==
    /\ pc = "metadata"
    /\ requests' = Append(requests,
            Request("lookup", "GET", ItemInfoUrl(itemId, portalUrl, options.token),
                    NoHeaders, NoBody))
    /\ pc' = "metadata:lookup"
    /\ UNCHANGED <<itemId, options, hasWebSocket, portalUrl, portalItemInfo, apiServiceUrl,
                   bearerToken, ticket, outcome, socket, settled, lastEvent, nPolls, fnVars>>

\* the item lookup answers: the rest of getPortalItemInfo, the service URL,
\* and getBearerToken up to its fetch or, without a token, the metadata
\* request
MetadataLookupResponse ==
    /\ pc = "metadata:lookup"
    /\ \E r \in Failures \cup {Ok(j) : j \in PortalItemResponses} :
        /\ lastEvent' = ResponseEvent("lookup", r)
        /\ IF r.kind = "rejects" \/ r.kind = "badjson"
           THEN Reject(r.error) /\ UNCHANGED <<portalItemInfo, apiServiceUrl, bearerToken, requests>>
           ELSE IF r.kind = "notok"
           THEN /\ Reject(createError(r.statusText, r.status))
                /\ UNCHANGED <<portalItemInfo, apiServiceUrl, bearerToken, requests>>
           ELSE IF r.json.error # {}
           THEN /\ LET x == CHOOSE y \in r.json.error : TRUE
                   IN Reject(createError(x.message, x.code))
                /\ UNCHANGED <<portalItemInfo, apiServiceUrl, bearerToken, requests>>
           ELSE LET service == Template(r.json.url) \o <<"service">>
                IN /\ portalItemInfo' = r.json
                   /\ apiServiceUrl' = service
                   /\ UNCHANGED outcome
                   /\ IF ~Truthy(options.token)
                      THEN /\ bearerToken' = << >>
                           /\ requests' = Append(requests,
                                MetadataRequest(portalUrl, itemId, service, options.token, << >>))
                           /\ pc' = "metadata:request"
                      ELSE /\ requests' = Append(requests,
                                TokenRequest(service, portalUrl, options.token))
                           /\ pc' = "metadata:token"
                           /\ UNCHANGED bearerToken
    /\ UNCHANGED <<itemId, options, hasWebSocket, portalUrl, ticket, socket, settled,
                   nPolls, fnVars>>

\* the token exchange answers: the rest of getBearerToken, and
\* getItemMetadata up to its fetch
MetadataTokenResponse ==
    /\ pc = "metadata:token"
    /\ \E r \in Failures \cup {Ok(j) : j \in TokenResponses} :
        /\ lastEvent' = ResponseEvent("token", r)
        /\ IF r.kind = "rejects"
           THEN /\ Reject(<<"A network error occurred fetching an authorization token.">>)
                /\ UNCHANGED <<bearerToken, requests>>
           ELSE IF r.kind = "notok"
           THEN /\ Reject(createError(r.statusText, r.status))
                /\ UNCHANGED <<bearerToken, requests>>
           ELSE IF r.kind = "badjson"
           THEN Reject(r.error) /\ UNCHANGED <<bearerToken, requests>>
           ELSE LET token == IF r.json.response = {} THEN undefined
                             ELSE (CHOOSE x \in r.json.response : TRUE).token
                    bearer == BearerOf(token)
                IN /\ bearerToken' = bearer
                   /\ requests' = Append(requests,
                        MetadataRequest(portalUrl, itemId, apiServiceUrl, options.token, bearer))
                   /\ pc' = "metadata:request"
                   /\ UNCHANGED outcome
    /\ UNCHANGED <<itemId, options, hasWebSocket, portalUrl, portalItemInfo, apiServiceUrl, ticket,
                   socket, settled, nPolls, fnVars>>

\* the metadata request answers: the try block of getItemMetadata, which
\* makes an Error of a status that is not ok without throwing it, and its
\* catch block
MetadataResponse ==
    /\ pc = "metadata:request"
    /\ \E r \in MetadataReplies :
        /\ lastEvent' = ResponseEvent("metadata", r)
        /\ IF r.kind = "rejects"
           THEN Reject(MetadataError(ErrorText("TypeError", r.error)))
           ELSE IF r.body.kind = "badjson"
           THEN Reject(MetadataError(ErrorText("SyntaxError", r.body.error)))
           ELSE IF \/ r.body.json.response = {}
                   \/ (CHOOSE x \in r.body.json.response : TRUE).parameters = {}
           THEN Reject(MetadataError(ErrorText("Error",
                    <<"The print service did not provide any metadata.">>)))
           ELSE LET data == CHOOSE x \in r.body.json.response : TRUE
                IN /\ pc' = "done"
                   /\ outcome' = Resolved([parameters |-> data.parameters,
                                           controls |-> marshalControlProperties(data.controls)])
    /\ UNCHANGED <<itemId, options, hasWebSocket, requests, portalUrl, portalItemInfo,
                   apiServiceUrl, bearerToken, ticket, socket, settled, nPolls, fnVars>>

MetadataNext ==
    \/ GetItemMetadata
    \/ MetadataLookupResponse
    \/ MetadataTokenResponse
    \/ MetadataResponse

MetadataSpec == MetadataInit /\ [][MetadataNext]_vars

----------------------------------------------------------------------------
(* Claims about run *)

\* the last request issued
LastRequest == requests[Len(requests)]

\* the kinds of the requests issued, in order
RequestKinds == [i \in DOMAIN requests |-> requests[i].kind]

\* the JSON of the poll response handled last, when that is the last event
LastPollIsOk == lastEvent.type = "poll" /\ lastEvent.response.kind = "ok"
LastPollView == lastEvent.response.json.view

\* C1: with usePolling set, as soon as a poll response arrives whose payload
\* has no error and whose first JobResult has a non-empty tag G, run is
\* resolved to U + "service/job/result?ticket=" + T + "&tag=" + G, U being the
\* url of the item and T the ticket of the job-run response, and no request
\* follows that response.
C1_PollingRunResolvesToDownloadUrl ==
    (/\ options.usePolling
     /\ LastPollIsOk
     /\ LastPollView.error = {}
     /\ \E jr \in LastPollView.jobResult : jr.tag # undefined /\ jr.tag # << >>)
    => LET G == (CHOOSE jr \in LastPollView.jobResult : TRUE).tag
       IN /\ pc = "done"
          /\ outcome = [kind |-> "resolved",
                        value |-> portalItemInfo.url
                                    \o <<"service", "/", "job", "/", "result?ticket=">>
                                    \o ticket \o <<"&tag=">> \o G]
          /\ LastRequest.kind = "poll"
          /\ socket = "none"

\* a run of the test's shape: a token, polling, a pending response and then
\* a JobResult
C1_Witness ==
    /\ options.usePolling /\ options.token = <<"portal-token">>
    /\ pc = "done" /\ nPolls = 2
    /\ LastPollIsOk /\ LastPollView.jobResult = {[tag |-> <<"TAG1">>]}
    /\ outcome.value = <<"https:", "/", "/", "svc", "/", "service", "/", "job", "/",
                         "result?ticket=", "TICK", "&tag=", "TAG1">>

\* C2: a run whose itemId is undefined or empty fails with "itemId is
\* required." and never issues a request or opens a socket.
C2_MissingItemIdFailsBeforeAnyRequest ==
    ((itemId = undefined \/ itemId = << >>) /\ pc # "init")
    => /\ pc = "failed"
       /\ outcome = [kind |-> "rejected", value |-> <<"itemId is required.">>]
       /\ requests = << >>
       /\ socket = "none"
       /\ nPolls = 0

C2_Witness == itemId = << >> /\ pc = "failed" /\ outcome.kind = "rejected"

\* an item whose typeKeywords are absent or hold neither accepted keyword
C3_NotATemplate(json) ==
    \A kw \in json.typeKeywords : \A i \in DOMAIN kw :
        kw[i] # <<"Geocortex Printing">> /\ kw[i] # <<"Geocortex Reporting">>

\* C3: when the item lookup succeeds and the item's typeKeywords are absent
\* or hold neither "Geocortex Printing" nor "Geocortex Reporting", run fails
\* with the "not a valid template type" error and the lookup stays the only
\* request.
C3_InvalidItemTypeFailsAfterLookup ==
    (/\ lastEvent.type = "lookup" /\ lastEvent.response.kind = "ok"
     /\ lastEvent.response.json.error = {}
     /\ C3_NotATemplate(lastEvent.response.json))
    => /\ pc = "failed"
       /\ outcome = [kind |-> "rejected",
                     value |-> <<"The item '">> \o itemId
                                \o <<"' is not a valid template type.">>]
       /\ RequestKinds = <<"lookup">>
       /\ socket = "none"

C3_Witness ==
    /\ lastEvent.type = "lookup" /\ lastEvent.response.kind = "ok"
    /\ lastEvent.response.json.error = {}
    /\ lastEvent.response.json.typeKeywords = {<< <<"Web Map">> >>}
    /\ lastEvent.response.json.url = <<"https:", "/", "/", "svc", "/">>
    /\ pc = "failed"

\* the stage a request belongs to: 1 item lookup, 2 token exchange, 3 job
\* submission, 4 job watch
StageOf(kind) ==
    CASE kind = "lookup" -> 1 [] kind = "token" -> 2 [] kind = "jobrun" -> 3
      [] OTHER -> 4

Issued(kind) == \E i \in DOMAIN requests : requests[i].kind = kind

C4_StagesInOrder ==
    /\ \A i, j \in DOMAIN requests :
        i < j => /\ StageOf(requests[i].kind) <= StageOf(requests[j].kind)
                 /\ StageOf(requests[i].kind) = StageOf(requests[j].kind)
                        => StageOf(requests[i].kind) = 4
    \* a stage's request only after the stages before it have succeeded
    /\ requests # << >> => requests[1].kind = "lookup"
    /\ (Issued("token") \/ Issued("jobrun"))
        => portalItemInfo # [assigned |-> FALSE] /\ apiServiceUrl # undefined
    /\ Issued("token") => options.token # undefined /\ options.token # << >>
    /\ Issued("jobrun") => bearerToken # undefined
    /\ (Issued("socket") \/ Issued("poll")) => Issued("jobrun") /\ ticket # undefined
    /\ outcome.kind = "resolved"
        => /\ pc = "done"
           /\ Issued("socket") \/ Issued("poll")
    \* a stage that fails rejects the run, and its request stays the last
    /\ (/\ lastEvent.type \in {"lookup", "token", "jobrun", "poll"}
        /\ lastEvent.response.kind \in {"rejects", "notok", "badjson"})
        => /\ pc = "failed" /\ outcome.kind = "rejected"
           /\ LastRequest.kind = lastEvent.type
           /\ lastEvent.response.kind = "notok"
                => outcome.value = <<"Error code: ", "500", ". Response error: \"",
                                     "Server Error", "\"">>
    /\ pc = "failed" <=> outcome.kind = "rejected"

C4_FailureIsFinal ==
    pc = "failed" => /\ pc' = "failed"
                     /\ outcome' = outcome
                     /\ requests' = requests

\* C4: the requests of one run are issued in the order item lookup, token
\* exchange, job submission, job watch, each only after the stage before
\* it has succeeded, the URL is assembled last, and once a stage has failed
\* the run is rejected and issues no further request.
C4_SequentialStages == [](C4_StagesInOrder) /\ [][C4_FailureIsFinal]_vars

C4_Witness ==
    /\ RequestKinds = <<"lookup", "token", "jobrun", "socket", "poll">>
    /\ lastEvent.type = "poll" /\ lastEvent.response.kind = "notok"
    /\ pc = "failed"

\* the token of the token response handled last
LastTokenResponse == CHOOSE x \in lastEvent.response.json.response : TRUE

\* C5: when an upstream token is supplied and the token exchange returns
\* the token R, the job-run request carries Authorization: "Bearer " + R, and
\* a run makes at most one token exchange, before its job-run request.
C5_JobRunCarriesBearerOfExchange ==
    /\ (/\ lastEvent.type = "token" /\ lastEvent.response.kind = "ok"
        /\ lastEvent.response.json.response # {}
        /\ LastTokenResponse.token # undefined)
        => /\ options.token = <<"portal-token">>
           /\ pc = "jobrun"
           /\ LastRequest.kind = "jobrun"
           /\ "Authorization" \in DOMAIN LastRequest.headers
           /\ LastRequest.headers["Authorization"]
                = <<"Bearer ">> \o LastTokenResponse.token
    /\ Cardinality({i \in DOMAIN requests : requests[i].kind = "token"}) <= 1
    /\ (Issued("jobrun") /\ options.token = <<"portal-token">>)
        => RequestKinds[2] = "token" /\ RequestKinds[3] = "jobrun"

C5_Witness ==
    /\ lastEvent.type = "token" /\ lastEvent.response.kind = "ok"
    /\ lastEvent.response.json = [response |-> {[token |-> <<"R">>]}]
    /\ LastRequest.kind = "jobrun"
    /\ LastRequest.headers["Authorization"] = <<"Bearer ", "R">>

\* C6: when no upstream token is supplied (undefined or empty), no token
\* request is ever issued, the credential is empty and the job-run request
\* has no Authorization header.
C6_NoTokenNoExchangeNoHeader ==
    (options.token = undefined \/ options.token = << >>)
    => /\ ~Issued("token")
       /\ pc # "token"
       /\ Issued("jobrun") => bearerToken = << >>
       /\ \A i \in DOMAIN requests :
            requests[i].kind = "jobrun"
                => DOMAIN requests[i].headers = {"Content-Type"}

C6_Witness ==
    /\ options.token = undefined
    /\ pc = "jobrun" /\ LastRequest.kind = "jobrun"
    /\ bearerToken = << >>

\* C8: when usePolling is set or the runtime has no WebSocket, no socket is
\* ever opened and every status request is a polling GET; otherwise the
\* socket is opened as soon as the ticket is there, before any polling GET.
C8_StreamingOnlyWhenAllowed ==
    /\ (options.usePolling \/ ~hasWebSocket)
        => /\ socket = "none"
           /\ \A i \in DOMAIN requests :
                StageOf(requests[i].kind) = 4
                    => requests[i].kind = "poll" /\ requests[i].method = "GET"
    /\ (~options.usePolling /\ hasWebSocket)
        => /\ ticket # undefined => Issued("socket") /\ socket # "none"
           /\ \A j \in DOMAIN requests :
                requests[j].kind = "poll"
                    => \E i \in 1..(j - 1) : requests[i].kind = "socket"

C8_Witness ==
    /\ ~options.usePolling /\ hasWebSocket
    /\ pc = "poll" /\ nPolls = 1
    /\ RequestKinds = <<"lookup", "jobrun", "socket", "poll">>

C8_WitnessPolling ==
    /\ ~options.usePolling /\ ~hasWebSocket
    /\ pc = "poll" /\ nPolls = 1
    /\ RequestKinds = <<"lookup", "jobrun", "poll">>

\* the top-level error of the payload evaluated
C9_Error == CHOOSE e \in fnIn.error : TRUE

\* C9: a status payload that has a top-level error always makes the
\* evaluation raise an error built from that error's message and status,
\* whatever its results hold, and never return a tag.
C9_TopLevelErrorTakesPrecedence ==
    (fnOut.called /\ fnIn.error # {})
    => /\ fnOut.throws
       /\ fnOut.value =
            IF C9_Error.status = undefined
            THEN <<"Response error: \"">> \o C9_Error.message \o <<"\"">>
            ELSE <<"Error code: ">> \o C9_Error.status \o <<". Response error: \"">>
                    \o C9_Error.message \o <<"\"">>

C9_Witness ==
    /\ fnOut.called
    /\ fnIn = [error |-> {[message |-> <<"denied">>, status |-> <<"403">>]},
               results |-> {<<[type |-> JobResult, tag |-> <<"TAG1">>,
                               message |-> undefined, code |-> undefined]>>}]
    /\ fnOut.throws
    /\ fnOut.value = <<"Error code: ", "403", ". Response error: \"", "denied", "\"">>

\* a payload without top-level error whose results hold a JobQuit and no
\* JobResult
C10_Quits(p) ==
    /\ p.error = {}
    /\ p.results # {}
    /\ LET rs == CHOOSE x \in p.results : TRUE
       IN /\ \E i \in DOMAIN rs : rs[i].type = <<"Job", "Quit">>
          /\ \A i \in DOMAIN rs : rs[i].type # <<"Job", "Result">>

\* the message of the failure such a payload stands for
C10_Failed(p) ==
    LET rs == CHOOSE x \in p.results : TRUE
        E == {i \in DOMAIN rs : rs[i].type[Len(rs[i].type)] = "error"}
        generic == <<"The request could not be completed.">>
    IN IF E = {}
       THEN <<"Response error: \"">> \o generic \o <<"\"">>
       ELSE LET r == rs[CHOOSE i \in E : \A j \in E : i <= j]
                m == IF r.message \in {undefined, << >>} THEN generic ELSE r.message
            IN IF r.code = undefined
               THEN <<"Response error: \"">> \o m \o <<"\"">>
               ELSE <<"Error code: ">> \o r.code \o <<". Response error: \"">>
                        \o m \o <<"\"">>

\* every such payload as a poll response presents it, with its failure
C10_QuitCases ==
    {[view |-> View(p), failed |-> C10_Failed(p)] :
        p \in {q \in StatusPayloads(MaxResults) : C10_Quits(q)}}

\* C10: a status payload without top-level error whose results hold a
\* JobQuit and no JobResult evaluates to a failure: with the message (the
\* generic one if it has none) and the code of the first record whose $type
\* ends with "error", or with the generic message and no code if there is no
\* such record; as a poll response it ends the polling loop and rejects run
\* with that failure.
C10_JobQuitFails ==
    LastPollIsOk
    => \A c \in C10_QuitCases :
        c.view = LastPollView
        => /\ lastEvent.response.json.status
                = [throws |-> TRUE, value |-> c.failed]
           /\ pc = "failed"
           /\ outcome = [kind |-> "rejected", value |-> c.failed]
           /\ LastRequest.kind = "poll"
           /\ Cardinality({i \in DOMAIN requests : requests[i].kind = "poll"}) = nPolls

C10_Witness ==
    /\ LastPollIsOk
    /\ LastPollView.error = {} /\ LastPollView.hasJobQuit
    /\ LastPollView.jobResult = {}
    /\ LastPollView.errorRecord = {[message |-> <<"boom">>, code |-> <<"42">>]}
    /\ pc = "failed"
    /\ outcome.value = <<"Error code: ", "42", ". Response error: \"", "boom", "\"">>

C10_WitnessNoRecord ==
    /\ LastPollIsOk
    /\ LastPollView.error = {} /\ LastPollView.hasJobQuit
    /\ LastPollView.jobResult = {} /\ LastPollView.errorRecord = {}
    /\ pc = "failed"
    /\ outcome.value = <<"Response error: \"", "The request could not be completed.", "\"">>

\* the place of a name in the parameters as declared, and its value there
C7_Place(name) == CHOOSE i \in DOMAIN fnIn : fnIn[i].name = name
C7_Declared(name) == fnIn[C7_Place(name)].value

\* the entry a parameter is to be marshalled to: multiple values for an
\* array, the payload and the name for a value with a non-empty $type, the
\* single value otherwise
C7_Entry(entry, name) ==
    LET v == C7_Declared(name)
    IN IF "$array" \in DOMAIN v
       THEN /\ DOMAIN entry = {"name", "containsMultipleValues", "values"}
            /\ entry["name"] = name
            /\ entry["containsMultipleValues"] = TRUE
            /\ entry["values"] = v["$array"]
       ELSE IF "$type" \in DOMAIN v /\ v["$type"] # << >>
       THEN /\ DOMAIN entry = DOMAIN v \cup {"name"}
            /\ entry["name"] = name
            /\ \A f \in DOMAIN v \ {"name"} : entry[f] = v[f]
       ELSE /\ DOMAIN entry = {"name", "value"}
            /\ entry["name"] = name
            /\ entry["value"] = v

\* names that are canonical array indices, and the integers they denote
C7_IsIndex(name) == name \in {<<"2">>, <<"10">>}
C7_Index(name) == IF name = <<"2">> THEN 2 ELSE 10

C7_OneEntryPerKey ==
    /\ Len(fnOut.params) = Len(fnIn)
    /\ \A i \in DOMAIN fnIn :
        \E k \in DOMAIN fnOut.params : fnOut.params[k]["name"] = fnIn[i].name
    /\ \A k \in DOMAIN fnOut.params :
        /\ \E i \in DOMAIN fnIn : fnOut.params[k]["name"] = fnIn[i].name
        /\ C7_Entry(fnOut.params[k], fnOut.params[k]["name"])

\* C7: the marshalled parameters have exactly one entry per key of
\* the parameters object, in the order the object enumerates its keys (names
\* that are array indices first, in ascending numeric order, then the other
\* names in declaration order); an array value yields {name,
\* containsMultipleValues: true, values}, a value with a non-empty $type the
\* payload with name set to the key, any other value {name, value}.
C7_MarshalingInEnumerationOrder ==
    fnOut.called
    => /\ C7_OneEntryPerKey
       /\ \A k, l \in DOMAIN fnOut.params :
            k < l =>
                LET a == fnOut.params[k]["name"]
                    b == fnOut.params[l]["name"]
                IN IF C7_IsIndex(b)
                   THEN C7_IsIndex(a) /\ C7_Index(a) < C7_Index(b)
                   ELSE C7_IsIndex(a) \/ C7_Place(a) < C7_Place(b)

C7_Witness ==
    /\ fnOut.called
    /\ fnIn = <<[name |-> <<"FeatureIds">>, value |-> Array(<< <<"1">>, <<"2">>, <<"3">> >>)],
                [name |-> <<"2">>, value |-> NamedMapValue]>>
    /\ fnOut.params[1] = MapValue @@ ("name" :> <<"2">>)
    /\ fnOut.params[2]["name"] = <<"FeatureIds">>
    /\ fnOut.params[2]["values"] = << <<"1">>, <<"2">>, <<"3">> >>

\* C7 with the order of declaration: one entry per key, variant-correct, the
\* k-th entry being that of the k-th parameter declared.
C7_MarshalingInDeclarationOrder ==
    fnOut.called
    => /\ C7_OneEntryPerKey
       /\ \A k \in DOMAIN fnOut.params : fnOut.params[k]["name"] = fnIn[k].name


\* a payload without top-level error whose results, empty or not, hold
\* neither a JobResult nor a JobQuit
C11_Pends(p) ==
    /\ p.error = {}
    /\ p.results # {}
    /\ LET rs == CHOOSE x \in p.results : TRUE
       IN \A i \in DOMAIN rs :
            rs[i].type # <<"Job", "Result">> /\ rs[i].type # <<"Job", "Quit">>

\* every such payload as a poll response presents it
C11_PendingViews == {View(p) : p \in {q \in StatusPayloads(MaxResults) : C11_Pends(q)}}

\* C11: a status payload without error whose results are empty or hold
\* neither a JobResult nor a JobQuit is still pending: its evaluation throws
\* nothing and returns no tag, and as a poll response it leaves run pending
\* with the polling loop in its next delay, after which the next status
\* request is issued.
C11_PendingPayloadKeepsPolling ==
    /\ (LastPollIsOk /\ LastPollView \in C11_PendingViews)
        => /\ lastEvent.response.json.status = [throws |-> FALSE, value |-> undefined]
           /\ pc = "delay"
           /\ outcome = [kind |-> "pending", value |-> undefined]
    /\ (pc = "delay" /\ nPolls < MaxPolls)
        => ENABLED DelayElapsed

C11_Witness ==
    /\ LastPollIsOk
    /\ LastPollView = [error |-> {}, hasResults |-> TRUE, jobResult |-> {},
                       hasJobQuit |-> FALSE, errorRecord |-> {}]
    /\ pc = "delay" /\ nPolls = 1
    /\ outcome.kind = "pending"


\* the streamed messages that are not final and evaluate to a terminal tag
C12_TaggedMessages ==
    {m \in SocketMessages :
        /\ m.parses /\ ~m.final /\ ~m.status.throws
        /\ m.status.value # undefined /\ m.status.value # << >>}

\* C12: in streaming mode, whenever a streamed message that is not final
\* evaluates to a terminal tag, the socket is closed, watchJob returns that tag
\* (run resolves to the download URL with it) and the polling loop is not
\* started for the run: no status request is ever issued by polling.
C12_StreamedTagDeterminesOutcome ==
    [][\A m \in C12_TaggedMessages :
        OnMessage(m)
        => /\ socket' = "closed"
           /\ pc' = "done"
           /\ outcome' = [kind |-> "resolved",
                          value |-> apiServiceUrl \o <<"/", "job", "/", "result?ticket=">>
                                    \o ticket \o <<"&tag=">> \o m.status.value]
           /\ \A i \in DOMAIN requests' : requests'[i].kind # "poll"]_vars


\* the error pollJob throws for the poll response handled last
C13_PollError ==
    LET r == lastEvent.response
    IN CASE r.kind = "rejects" -> <<"A network error occurred checking the job status.">>
         [] r.kind = "notok" -> <<"Error code: ">> \o r.status \o <<". Response error: \"">>
                                    \o r.statusText \o <<"\"">>
         [] r.kind = "badjson" -> r.error
         [] OTHER -> r.json.status.value

\* a run that watches its job with a socket and is rejected in the watch
\* stage is rejected with the error of the poll response handled last
C13_RejectedByPolling ==
    (Issued("socket") /\ outcome.kind = "rejected")
    => /\ settled
       /\ lastEvent.type = "poll"
       /\ lastEvent.response.kind = "ok" => lastEvent.response.json.status.throws
       /\ outcome.value = C13_PollError

\* no event of the socket and no step taken while the streaming attempt is
\* unsettled rejects the run
C13_SocketEventsRejectNothing ==
    (/\ outcome.kind # "rejected"
     /\ pc = "socket" \/ (socket = "open" /\ socket' # "open"))
    => outcome'.kind # "rejected"

\* C13: no failure or ambiguity of the streaming channel (socket error,
\* unparsable message, streamed payload that evaluates to an error) is the
\* reason run rejects with: a run in streaming mode that rejects in the watch
\* stage rejects with the error the polling loop raised.
C13_StreamingFailuresNotSurfaced ==
    [](C13_RejectedByPolling) /\ [][C13_SocketEventsRejectNothing]_vars

C13_Witness ==
    /\ socket = "errored" /\ settled
    /\ pc = "failed"
    /\ lastEvent.type = "poll" /\ lastEvent.response.kind = "rejects"
    /\ outcome.value = <<"A network error occurred checking the job status.">>

C13_WitnessMessage ==
    /\ lastEvent.type = "message" /\ lastEvent.message.parses
    /\ ~lastEvent.message.final /\ lastEvent.message.status.throws
    /\ pc = "socket" /\ outcome.kind = "pending"


\* the streamed message handled last threw in the listener: it could not be
\* parsed, or its payload evaluates to an error
C14_MessageFailed ==
    /\ lastEvent.type = "message"
    /\ ~lastEvent.message.parses
        \/ (~lastEvent.message.final /\ lastEvent.message.status.throws)

\* C14: in streaming mode, after a streamed message that cannot be parsed or
\* whose payload evaluates to an error, the streaming attempt settles as
\* inconclusive and the polling loop starts, whether or not the socket
\* delivers another event.
C14_StreamingFailureFallsBackToPolling ==
    C14_MessageFailed ~> (settled /\ pc # "socket")


\* C15: whenever the streaming attempt has settled and watchJob has
\* returned its tag or thrown, the connection that watchJob opened has been
\* closed by the client.
C15_SocketClosedOnEveryExit ==
    (Issued("socket") /\ settled /\ pc \in {"done", "failed"})
    => socket = "closed"

\* the poll response handled last is a fetch that rejected or a response
\* that is not ok
C16_PollFailed ==
    /\ lastEvent.type = "poll"
    /\ lastEvent.response.kind \in {"rejects", "notok"}

C16_FailedPollRejects ==
    C16_PollFailed
    => /\ pc = "failed"
       /\ outcome = [kind |-> "rejected",
                     value |-> IF lastEvent.response.kind = "rejects"
                               THEN <<"A network error occurred checking the job status.">>
                               ELSE <<"Error code: ", "500", ". Response error: \"",
                                      "Server Error", "\"">>]
       /\ requests[Len(requests)].kind = "poll"
       /\ Cardinality({i \in DOMAIN requests : requests[i].kind = "poll"}) = nPolls

C16_NoRetry ==
    C16_PollFailed
    => /\ requests' = requests /\ nPolls' = nPolls
       /\ pc' = pc /\ outcome' = outcome
       /\ C16_PollFailed'

\* C16: a poll request that failed is never tried again: once a polling GET
\* has thrown a transport exception or returned a status that is not ok, the
\* loop has ended, run is rejected with that error and no further polling GET
\* is issued.
C16_FailedPollNeverRetried ==
    [](C16_FailedPollRejects) /\ [][C16_NoRetry]_vars

C16_Witness ==
    /\ C16_PollFailed /\ lastEvent.response.kind = "notok"
    /\ nPolls = 1 /\ pc = "failed"
    /\ socket = "none"

C16_WitnessTransport ==
    /\ C16_PollFailed /\ lastEvent.response.kind = "rejects"
    /\ nPolls = 1 /\ pc = "failed"
    /\ socket = "open"


\* the poll response handled last was read and evaluated without an error
C17_Evaluated ==
    /\ lastEvent.type = "poll" /\ lastEvent.response.kind = "ok"
    /\ ~lastEvent.response.json.status.throws

C17_Tag == lastEvent.response.json.status.value

\* the polling loop ends only with a terminal tag or with a hard error, and
\* goes on after a response that brings neither
C17_LoopEndsOnlyByTagOrError ==
    /\ pc \in {"delay", "poll"} => outcome.kind = "pending"
    /\ lastEvent.type = "timer" => pc = "poll"
    /\ lastEvent.type = "poll" =>
        /\ pc = "done" <=> (C17_Evaluated /\ C17_Tag # undefined /\ C17_Tag # << >>)
        /\ pc = "delay" <=> (C17_Evaluated /\ (C17_Tag = undefined \/ C17_Tag = << >>))
        /\ pc = "failed" <=> ~C17_Evaluated
        /\ pc = "done" => outcome.kind = "resolved"
        /\ pc = "failed" => outcome.kind = "rejected"

\* C17: the polling loop never gives up on its own: it ends only by
\* returning a terminal tag (run resolves) or by a hard error (run rejects);
\* after a status response that is pending run stays unsettled and the loop
\* issues its next status request, and every status request that is
\* answered ends the loop or leads to the next delay.
C17_PollingNeverGivesUp ==
    /\ [](C17_LoopEndsOnlyByTagOrError)
    /\ (pc = "delay" /\ nPolls < MaxPolls) ~> (pc = "poll")
    /\ (pc = "poll") ~> (pc \in {"delay", "done", "failed"})

C17_Witness ==
    /\ nPolls = MaxPolls /\ pc = "delay"
    /\ C17_Evaluated /\ C17_Tag = undefined
    /\ Cardinality({i \in DOMAIN requests : requests[i].kind = "poll"}) = MaxPolls
    /\ outcome.kind = "pending"

C17_WitnessResolved ==
    /\ nPolls = MaxPolls /\ pc = "done"
    /\ C17_Evaluated /\ C17_Tag = <<"TAG1">>
    /\ options.usePolling


\* C18: when the caller supplies runToken and serviceUrl in the options, run
\* issues no item-lookup request and no token request, and submits the job to
\* the serviceUrl supplied with the runToken supplied as its credential.
C18_RunTokenBypassesLookupAndExchange ==
    (options.runToken # undefined /\ options.serviceUrl # undefined)
    => /\ \A i \in DOMAIN requests :
            /\ requests[i].kind # "lookup" /\ requests[i].kind # "token"
            /\ requests[i].kind = "jobrun"
                => /\ requests[i].url = options.serviceUrl \o <<"/", "job", "/", "run">>
                   /\ "Authorization" \in DOMAIN requests[i].headers
                   /\ requests[i].headers["Authorization"]
                        \in {options.runToken, <<"Bearer ">> \o options.runToken}
       /\ pc \notin {"lookup", "token"}


\* the lookup response handled last failed: its status is not ok, or its
\* payload carries an error
C20_LookupFailed ==
    /\ lastEvent.type = "lookup"
    /\ \/ lastEvent.response.kind = "notok"
       \/ (lastEvent.response.kind = "ok" /\ lastEvent.response.json.error # {})

\* C20: the item lookup checks both channels of failure: after a lookup
\* response whose status is not ok, and after one that is ok but whose payload
\* carries an error, run is rejected at the lookup stage with no later
\* request, and the error of the second case carries the message and the code
\* of the payload's error.
C20_LookupChecksBothFailureChannels ==
    C20_LookupFailed
    => /\ pc = "failed"
       /\ RequestKinds = <<"lookup">>
       /\ ~ENABLED Next
       /\ outcome.kind = "rejected"
       /\ outcome.value =
            IF lastEvent.response.kind = "notok"
            THEN <<"Error code: ">> \o lastEvent.response.status
                    \o <<". Response error: \"">> \o lastEvent.response.statusText \o <<"\"">>
            ELSE LET x == CHOOSE y \in lastEvent.response.json.error : TRUE
                 IN <<"Error code: ">> \o x.code \o <<". Response error: \"">>
                        \o x.message \o <<"\"">>

C20_Witness ==
    /\ lastEvent.type = "lookup" /\ lastEvent.response.kind = "ok"
    /\ lastEvent.response.json.error = {[message |-> <<"Item does not exist">>, code |-> <<"400">>]}
    /\ lastEvent.response.json.typeKeywords = {<<GeocortexPrinting>>}
    /\ lastEvent.response.json.url = <<"https:", "/", "/", "svc", "/">>
    /\ pc = "failed"
    /\ outcome.value = <<"Error code: ", "400", ". Response error: \"", "Item does not exist", "\"">>

C20_WitnessNotOk ==
    /\ lastEvent.type = "lookup" /\ lastEvent.response.kind = "notok"
    /\ pc = "failed"
    /\ outcome.value = <<"Error code: ", "500", ". Response error: \"", "Server Error", "\"">>


\* a URL of the form <scheme>://<host-and-path>/home/item.html?...id=<hex>
\* with scheme http or https and a hex id that is not empty
C19_WellFormed(u) ==
    /\ Len(u.scheme) > 0 /\ u.scheme # <<"f", "t", "p", ":", "/", "/">>
    /\ u.page = <<"/", "h", "o", "m", "e", "/", "i", "t", "e", "m", ".", "h", "t", "m", "l">>
    /\ Len(u.query) > 0
    /\ u.id.present /\ Len(u.id.hex) > 0

\* a URL without scheme, without the segment /home/item.html, or with an id
\* that is missing or empty
C19_Lacking(u) ==
    \/ Len(u.scheme) = 0
    \/ u.page # <<"/", "h", "o", "m", "e", "/", "i", "t", "e", "m", ".", "h", "t", "m", "l">>
    \/ ~u.id.present
    \/ Len(u.id.hex) = 0

\* C19: for every URL <scheme>://<host-and-path>/home/item.html?...id=<hex>
\* with scheme http or https and a hex id that is not empty, parseItemUrl
\* returns the hex id as itemId and the part before /home/item.html as
\* portalUrl; for every URL that lacks the scheme or the segment
\* /home/item.html, or whose id is missing or empty, it throws.
C19_ParseItemUrl ==
    fnOut.called
    => /\ C19_WellFormed(fnIn)
            => /\ ~fnOut.throws
               /\ fnOut.value = [itemId |-> fnIn.id.hex,
                                 portalUrl |-> fnIn.scheme \o fnIn.host]
       /\ C19_Lacking(fnIn) => fnOut.throws


\* the streamed messages that signal final closure and bring no terminal tag
C21_FinalMessages ==
    {m \in SocketMessages :
        /\ m.parses /\ m.final
        /\ m.status.throws \/ m.status.value = undefined \/ m.status.value = << >>}

\* such a message has settled the streaming attempt
C21_SettledByFinal ==
    lastEvent.type = "message" /\ lastEvent.message \in C21_FinalMessages

C21_FinalIsInconclusive ==
    C21_SettledByFinal
    => /\ socket = "closed" /\ settled
       /\ pc = "delay" /\ nPolls = 0
       /\ outcome = [kind |-> "pending", value |-> undefined]

\* handling such a message closes the socket and never settles run; with the
\* socket closed, run is settled by a poll response only
C21_FinalClosesSocket ==
    /\ \A m \in C21_FinalMessages :
        OnMessage(m) => /\ socket' = "closed" /\ settled'
                        /\ outcome' = outcome
                        /\ ~settled => pc' = "delay"
    /\ (socket = "closed" /\ outcome.kind = "pending" /\ outcome' # outcome)
        => /\ pc = "poll" /\ lastEvent'.type = "poll"
           /\ requests[Len(requests)].kind = "poll"

\* C21: in streaming mode a streamed message that signals final closure
\* and carries no terminal tag makes the client close the socket and settle
\* the streaming attempt as inconclusive, never as success; the polling loop
\* then starts, and it is a poll response that settles run.
C21_FinalMessageFallsBackToPolling ==
    /\ [](C21_FinalIsInconclusive)
    /\ [][C21_FinalClosesSocket]_vars
    /\ C21_SettledByFinal ~> (pc = "poll" /\ nPolls = 1)

C21_Witness ==
    /\ C21_SettledByFinal
    /\ lastEvent.message.status = [throws |-> FALSE, value |-> undefined]
    /\ socket = "closed" /\ pc = "delay"


\* the streamed messages that signal final closure and carry a JobResult with
\* a tag that is not empty
C22_FinalTaggedMessages ==
    {m \in SocketMessages :
        /\ m.parses /\ m.final /\ ~m.status.throws
        /\ m.status.value # undefined /\ m.status.value # << >>}

C22_SettledByFinalTagged ==
    lastEvent.type = "message" /\ lastEvent.message \in C22_FinalTaggedMessages

\* C22: in streaming mode every final message is inconclusive, whether or
\* not it carries a terminal tag: a streamed message that has final set and
\* carries a JobResult with a non-empty tag is not evaluated; the client closes
\* the socket, the streaming attempt settles without a tag, run stays pending
\* and the polling loop starts.
C22_FinalMessageIsNeverEvaluated ==
    /\ [](C22_SettledByFinalTagged
            => /\ socket = "closed" /\ settled
               /\ pc = "delay" /\ nPolls = 0
               /\ outcome = [kind |-> "pending", value |-> undefined])
    /\ [][\A m \in C22_FinalTaggedMessages :
            OnMessage(m) => /\ socket' = "closed"
                            /\ outcome' = outcome
                            /\ pc' # "done" \/ pc = "done"]_vars
    /\ C22_SettledByFinalTagged ~> (pc = "poll" /\ nPolls = 1)

C22_Witness ==
    /\ C22_SettledByFinalTagged
    /\ lastEvent.message.status = [throws |-> FALSE, value |-> <<"TAG1">>]
    /\ socket = "closed" /\ pc = "delay" /\ outcome.kind = "pending"

\* C22 with the final message evaluated: after a streamed message that has
\* final set and carries a JobResult with a non-empty tag, watchJob has returned
\* that tag (run has resolved to the download URL with it) and no status
\* request has been issued by polling.
C22_FinalTaggedMessageResolves ==
    C22_SettledByFinalTagged
    => /\ pc = "done"
       /\ outcome = [kind |-> "resolved",
                     value |-> apiServiceUrl \o <<"/", "job", "/", "result?ticket=">>
                                \o ticket \o <<"&tag=">> \o lastEvent.message.status.value]
       /\ \A i \in DOMAIN requests : requests[i].kind # "poll"


\* the streamed messages that are neither final nor terminal: they parse,
\* and their evaluation throws nothing and yields no tag
C23_NonTerminalMessages ==
    {m \in SocketMessages :
        /\ m.parses /\ ~m.final /\ ~m.status.throws
        /\ m.status.value = undefined \/ m.status.value = << >>}

C23_SettledByNonTerminal ==
    lastEvent.type = "message" /\ lastEvent.message \in C23_NonTerminalMessages

\* C23: in streaming mode the first streamed message that is neither final
\* nor terminal settles the streaming attempt as inconclusive at once: run is
\* pending, watchJob waits for no further message, and the polling loop
\* starts after that one message.
C23_NonTerminalMessageFallsBackToPolling ==
    /\ [](C23_SettledByNonTerminal
            => /\ settled
               /\ pc = "delay" /\ nPolls = 0
               /\ outcome = [kind |-> "pending", value |-> undefined])
    /\ [][\A m \in C23_NonTerminalMessages :
            (OnMessage(m) /\ ~settled) => settled' /\ pc' = "delay"]_vars
    /\ C23_SettledByNonTerminal ~> (pc = "poll" /\ nPolls = 1)

C23_Witness ==
    /\ C23_SettledByNonTerminal
    /\ lastEvent.message.status = [throws |-> FALSE, value |-> undefined]
    /\ settled /\ pc = "delay" /\ socket = "open"

\* C24: in streaming mode an error event of the socket that comes before
\* the streaming attempt has settled settles it as inconclusive, not as a
\* failure: run stays pending and is not rejected by the event, and the
\* polling loop starts.
C24_SocketErrorFallsBackToPolling ==
    /\ [](lastEvent.type = "error"
            => /\ settled /\ socket = "errored"
               /\ pc = "delay" /\ nPolls = 0
               /\ outcome = [kind |-> "pending", value |-> undefined])
    /\ [][(socket = "open" /\ socket' = "errored")
            => /\ outcome' = outcome
               /\ settled'
               /\ ~settled => (pc = "socket" /\ pc' = "delay")]_vars
    /\ (lastEvent.type = "error") ~> (pc = "poll" /\ nPolls = 1)

C24_Witness ==
    /\ lastEvent.type = "error"
    /\ socket = "errored" /\ settled
    /\ pc = "delay" /\ outcome.kind = "pending"


C25_PollRequests == {i \in DOMAIN requests : requests[i].kind = "poll"}

\* a polling GET is in flight exactly while pollJob awaits its fetch, and it
\* is the request issued last, by the delay that has just elapsed
C25_OneInFlight ==
    /\ Cardinality(C25_PollRequests) = nPolls
    /\ pc = "poll" => /\ requests[Len(requests)].kind = "poll"
                      /\ lastEvent.type = "timer"
                      /\ nPolls >= 1
    /\ pc = "delay" => /\ nPolls = 0 => lastEvent.type \in {"jobrun", "message", "error"}
                       /\ nPolls > 0 => /\ lastEvent.type = "poll"
                                        /\ lastEvent.response.kind = "ok"
                                        /\ ~lastEvent.response.json.status.throws

\* a polling GET is issued only by a delay that elapses while none is in
\* flight, and a delay starts only with pollJob or after a response that
\* evaluated as pending
C25_DelayThenRequestThenResponse ==
    /\ requests' # requests /\ requests'[Len(requests')].kind = "poll"
        => /\ pc = "delay" /\ pc' = "poll"
           /\ lastEvent'.type = "timer"
           /\ requests' = Append(requests, requests'[Len(requests')])
    /\ (pc' = "delay" /\ pc # "delay")
        => \/ nPolls = 0 /\ pc \in {"jobrun", "socket"}
           \/ /\ pc = "poll" /\ lastEvent'.type = "poll"
              /\ lastEvent'.response.kind = "ok"
              /\ lastEvent'.response.json.status
                    \in {[throws |-> FALSE, value |-> undefined],
                         [throws |-> FALSE, value |-> << >>]}

\* C25: polling attempts are strictly sequential: at most one polling GET is
\* in flight at any time, every polling GET, the first included, is issued by
\* its own delay elapsing, and the next delay starts only after the response
\* to the previous GET has been received and evaluated as pending.
C25_PollingIsSequential ==
    [](C25_OneInFlight) /\ [][C25_DelayThenRequestThenResponse]_vars

C25_Witness ==
    /\ nPolls = 2 /\ pc = "poll"
    /\ Cardinality(C25_PollRequests) = 2
    /\ lastEvent.type = "timer"


\* the ticket of the job-run response handled last
C26_ResponseTicket == (CHOOSE x \in lastEvent.response.json.response : TRUE).ticket

C26_TicketIsTheKey ==
    /\ (lastEvent.type = "jobrun" /\ pc # "failed") => ticket = C26_ResponseTicket
    /\ \A i \in DOMAIN requests :
        /\ requests[i].kind = "socket"
            => /\ ticket = <<"TICK">>
               /\ requests[i].url[Len(requests[i].url)] = "TICK"
               /\ requests[i].url[Len(requests[i].url) - 1] = "artifacts?ticket="
               /\ \E j \in 1..(i - 1) : requests[j].kind = "jobrun"
        /\ requests[i].kind = "poll"
            => /\ ticket = <<"TICK">>
               /\ requests[i].url = apiServiceUrl
                        \o <<"/", "job", "/", "artifacts?ticket=">> \o ticket
               /\ \E j \in 1..(i - 1) : requests[j].kind = "jobrun"
    /\ outcome.kind = "resolved"
        => \E k \in DOMAIN outcome.value :
            /\ outcome.value[k] = "result?ticket="
            /\ SubSeq(outcome.value, k + 1, k + Len(ticket)) = ticket
            /\ outcome.value[k + Len(ticket) + 1] = "&tag="

\* the ticket is assigned once, from the job-run response
C26_TicketAssignedOnce ==
    /\ ticket # undefined => ticket' = ticket
    /\ ticket' # ticket => /\ lastEvent'.type = "jobrun"
                           /\ lastEvent'.response.kind = "ok"
                           /\ ticket' = (CHOOSE x \in lastEvent'.response.json.response : TRUE).ticket

\* C26: within one run the ticket that keys the streaming connection, every
\* polling GET and the download URL is the ticket the job-run response of the
\* run returned, and no status request is issued before that ticket is there.
C26_TicketCorrelation ==
    [](C26_TicketIsTheKey) /\ [][C26_TicketAssignedOnce]_vars

C26_Witness ==
    /\ pc = "done" /\ ticket = <<"TICK">>
    /\ \E i \in DOMAIN requests : requests[i].kind = "socket"
    /\ \E i \in DOMAIN requests : requests[i].kind = "poll"
    /\ outcome.kind = "resolved"

\* the token response handled last is a success without a token
C27_TokenMissing ==
    /\ lastEvent.type = "token" /\ lastEvent.response.kind = "ok"
    /\ \/ lastEvent.response.json.response = {}
       \/ \A x \in lastEvent.response.json.response : x.token = undefined

\* C27: when an upstream token is supplied and the token exchange answers
\* with a success that lacks the token, the exchange does not fail, the
\* credential of the run is empty and the job-run request is sent without any
\* Authorization header.
C27_MissingTokenMeansNoHeader ==
    C27_TokenMissing
    => /\ pc = "jobrun"
       /\ outcome.kind = "pending"
       /\ bearerToken = << >>
       /\ requests[Len(requests)].kind = "jobrun"
       /\ "Authorization" \notin DOMAIN requests[Len(requests)].headers

\* the job-run response handled last is a transport exception, a status
\* that is not ok, or a success without a ticket that is not empty
C28_SubmissionFailed ==
    /\ lastEvent.type = "jobrun"
    /\ \/ lastEvent.response.kind \in {"rejects", "notok"}
       \/ /\ lastEvent.response.kind = "ok"
          /\ \A x \in lastEvent.response.json.response :
                x.ticket = undefined \/ x.ticket = << >>

C28_Error ==
    CASE lastEvent.response.kind = "rejects"
            -> <<"A network error occurred attempting to run a job.">>
      [] lastEvent.response.kind = "notok"
            -> <<"Error code: ", "500", ". Response error: \"", "Server Error", "\"">>
      [] OTHER -> <<"Response error: \"", "The service did not provide a ticket.", "\"">>

\* C28: the job submission fails, and no streaming connection and no
\* polling GET is ever issued, when the job-run request throws a transport
\* exception, returns a status that is not ok, or returns a success without
\* response.ticket or with an empty one; only a ticket that is not empty
\* takes the run to the watch stage.
C28_SubmissionFailsWithoutTicket ==
    /\ C28_SubmissionFailed
        => /\ pc = "failed"
           /\ outcome = [kind |-> "rejected", value |-> C28_Error]
           /\ requests[Len(requests)].kind = "jobrun"
           /\ socket = "none" /\ nPolls = 0
           /\ ticket = undefined
           /\ ~ENABLED Next
    /\ (pc \in {"socket", "delay", "poll", "done"} \/ socket # "none" \/ nPolls > 0
            \/ Issued("socket") \/ Issued("poll"))
        => ticket # undefined /\ ticket # << >>

C28_Witness ==
    /\ lastEvent.type = "jobrun" /\ lastEvent.response.kind = "ok"
    /\ lastEvent.response.json = [response |-> {[ticket |-> << >>]}]
    /\ pc = "failed"
    /\ outcome.value = <<"Response error: \"", "The service did not provide a ticket.", "\"">>


\* a status payload that has neither results nor a top-level error, as a poll
\* response presents it
C29_EmptyView ==
    [error |-> {}, hasResults |-> FALSE, jobResult |-> {}, hasJobQuit |-> FALSE,
     errorRecord |-> {}]

C29_GenericError == <<"Response error: \"", "The request could not be completed.", "\"">>

\* C29: a status payload with neither results nor a top-level error
\* evaluates to the Error with the generic message, and as a poll response it
\* ends the polling loop and rejects run with that Error instead of counting
\* as pending.
C29_EmptyPayloadFails ==
    (LastPollIsOk /\ LastPollView = C29_EmptyView)
    => /\ lastEvent.response.json.status = [throws |-> TRUE, value |-> C29_GenericError]
       /\ pc = "failed"
       /\ outcome = [kind |-> "rejected", value |-> C29_GenericError]
       /\ requests[Len(requests)].kind = "poll"
       /\ ~ENABLED DelayElapsed /\ ~ENABLED PollResponse

C29_Witness ==
    /\ LastPollIsOk /\ LastPollView = C29_EmptyView
    /\ nPolls = 2
    /\ outcome.kind = "rejected"

\* the records of the payload evaluated, and the places of its JobResults
C30_Records == CHOOSE x \in fnIn.results : TRUE
C30_JobResults == {i \in DOMAIN C30_Records : C30_Records[i].type = <<"Job", "Result">>}

\* C30: the evaluation of a status payload without top-level error whose
\* results hold at least one JobResult throws nothing and returns the tag of
\* the JobResult that comes first in the results, also when the results hold a
\* JobQuit or a record whose $type ends with "error" as well.
C30_FirstJobResultWins ==
    (/\ fnOut.called
     /\ fnIn.error = {}
     /\ fnIn.results # {}
     /\ C30_JobResults # {})
    => /\ fnOut.throws = FALSE
       /\ \E i \in C30_JobResults :
            /\ \A j \in C30_JobResults : i <= j
            /\ fnOut.value = C30_Records[i].tag

C30_Witness ==
    /\ fnOut.called
    /\ fnIn.error = {}
    /\ fnIn.results # {}
    /\ Len(C30_Records) = 3
    /\ C30_Records[1].type = <<"Job", "Quit">>
    /\ C30_Records[2].type = <<"Job", "error">>
    /\ C30_Records[3].type = <<"Job", "Result">>
    /\ fnOut = [called |-> TRUE, throws |-> FALSE, value |-> <<"TAG2">>]

C30_WitnessTwoResults ==
    /\ fnOut.called
    /\ fnIn.error = {}
    /\ fnIn.results # {}
    /\ Len(C30_Records) = 3
    /\ C30_Records[1].type = <<"Job", "Quit">>
    /\ C30_Records[2] = [type |-> <<"Job", "Result">>, tag |-> <<"TAG1">>,
                         message |-> undefined, code |-> undefined]
    /\ C30_Records[3] = [type |-> <<"Job", "Result">>, tag |-> <<"TAG2">>,
                         message |-> undefined, code |-> undefined]
    /\ fnOut.value = <<"TAG1">>


\* the service endpoint with one slash between the url of the item and
\* "service"
C31_NormalizedService == StripTrailingSlash(portalItemInfo.url) \o <<"/", "service">>

\* C31: the download URL run returns is the url of the item, one slash,
\* "service/job/result?ticket=" + ticket + "&tag=" + tag, whether or not the
\* url of the item ends with a slash, and the token-exchange, job-run and
\* status requests of the run are sent to that same service base.
C31_DownloadUrlIsNormalized ==
    outcome.kind = "resolved"
    => /\ \E tag \in Tags :
            outcome.value = C31_NormalizedService
                \o <<"/", "job", "/", "result?ticket=">> \o ticket \o <<"&tag=">> \o tag
       /\ \A i \in DOMAIN requests :
            /\ requests[i].kind = "token"
                => requests[i].url = C31_NormalizedService
                        \o <<"/", "auth", "/", "token", "/", "run">>
            /\ requests[i].kind = "jobrun"
                => requests[i].url = C31_NormalizedService \o <<"/", "job", "/", "run">>
            /\ requests[i].kind = "poll"
                => requests[i].url = C31_NormalizedService
                        \o <<"/", "job", "/", "artifacts?ticket=">> \o ticket


C32_NoTagError == <<"Response error: \"", "The service did not provide a tag.", "\"">>

\* the poll responses without error whose first JobResult has no tag or an
\* empty one, as a poll response presents them
C32_EmptyTagViews ==
    {v \in {r.view : r \in StatusResponses} :
        /\ v.error = {}
        /\ v.jobResult \in {{[tag |-> undefined]}, {[tag |-> << >>]}}}

\* C32: run is resolved only with a tag that is not empty and is never
\* rejected with "The service did not provide a tag."; a poll response whose
\* first JobResult has a missing or empty tag counts as pending: nothing is
\* thrown and the loop goes to its next delay and its next status request.
C32_EmptyTagIsPending ==
    /\ outcome.kind = "rejected" => outcome.value # C32_NoTagError
    /\ outcome.kind = "resolved"
        => \E tag \in Tags \ {undefined, << >>} :
            outcome.value = DownloadUrl(apiServiceUrl, ticket, tag)
    /\ (LastPollIsOk /\ LastPollView \in C32_EmptyTagViews)
        => /\ lastEvent.response.json.status.throws = FALSE
           /\ ~Truthy(lastEvent.response.json.status.value)
           /\ pc = "delay"
           /\ outcome = [kind |-> "pending", value |-> undefined]
           /\ nPolls < MaxPolls => ENABLED DelayElapsed

C32_Witness ==
    /\ LastPollIsOk
    /\ LastPollView.error = {}
    /\ LastPollView.jobResult = {[tag |-> << >>]}
    /\ LastPollView.hasJobQuit
    /\ pc = "delay" /\ nPolls = 1


\* a socket event is delivered after the streaming attempt has settled
C33_LateSocketEvent == settled /\ (SocketMessage \/ SocketError \/ SocketServerClose)

\* what a step may do once the streaming attempt has settled
C33_SettledOnce ==
    /\ settled => settled'
    /\ C33_LateSocketEvent
        => UNCHANGED <<pc, outcome, nPolls, requests, lastEvent, ticket>>
    /\ (settled /\ outcome' # outcome)
        => pc = "poll" /\ lastEvent'.type = "poll"
    /\ (settled /\ pc' = "delay" /\ pc # "delay")
        => pc = "poll" /\ lastEvent'.type = "poll"

\* the tag of a resolved run is the tag of the event that determined it
C33_TagOfTheWinner ==
    /\ (pc = "done" /\ lastEvent.type = "message")
        => outcome = Resolved(DownloadUrl(apiServiceUrl, ticket,
                                          lastEvent.message.status.value))
    /\ (pc = "done" /\ lastEvent.type = "poll")
        => outcome = Resolved(DownloadUrl(apiServiceUrl, ticket,
                                          lastEvent.response.json.status.value))
    /\ pc = "done" => lastEvent.type \in {"message", "poll"}

\* C33: the streaming attempt settles at most once and the first event that
\* settles it wins: a socket message, error or close delivered after that, in
\* any interleaving with the polling loop, changes neither what watchJob
\* returns nor the outcome of run, starts no second polling loop, and run
\* resolves with the tag of the socket message or poll response that
\* determined it.
C33_FirstSettlingEventWins ==
    [](C33_TagOfTheWinner) /\ [][C33_SettledOnce]_vars

\* the attempt was settled by a message without tag that is not final, which
\* leaves the socket open, and a later socket event has closed it since
C33_Witness ==
    /\ settled
    /\ lastEvent.type = "message"
    /\ lastEvent.message.parses /\ ~lastEvent.message.final
    /\ ~lastEvent.message.status.throws
    /\ ~Truthy(lastEvent.message.status.value)
    /\ socket \in {"closed", "errored"}
    /\ pc = "delay" /\ nPolls = 0 /\ outcome.kind = "pending"

\* the polling loop has resolved run while the socket, settled without a
\* tag, was still open, and a late message has closed it since
C33_WitnessAfterPolling ==
    /\ settled /\ pc = "done" /\ lastEvent.type = "poll" /\ nPolls = 2
    /\ socket = "closed"


\* the streaming attempt of the run has started and has not settled
C34_Unsettled == Issued("socket") /\ ~settled

C34_NoPollWhileUnsettled ==
    /\ C34_Unsettled
        => /\ pc = "socket"
           /\ nPolls = 0
           /\ ~Issued("poll")
           /\ outcome = [kind |-> "pending", value |-> undefined]
           /\ ~ENABLED DelayElapsed /\ ~ENABLED PollResponse
    /\ Issued("poll") /\ Issued("socket") => settled
    /\ (socket = "serverclosed" /\ ~settled) => ~ENABLED Next

\* the attempt is settled by a message or an error event of the socket, and
\* polling starts from there only when that event brought no tag
C34_SettledBySocketEvent ==
    /\ (C34_Unsettled /\ (settled' \/ pc' # pc))
        => /\ settled'
           /\ lastEvent'.type \in {"message", "error"}
    /\ (C34_Unsettled /\ pc' = "delay")
        => \/ lastEvent'.type = "error"
           \/ /\ lastEvent'.type = "message"
              /\ \/ lastEvent'.message.final
                 \/ ~Truthy(lastEvent'.message.status.value)

\* C34: in streaming mode no polling GET is issued while the streaming
\* attempt is unsettled; polling starts only after a socket message or error
\* event has settled the attempt without a tag, and when the server closes
\* the connection before any such event, the polling loop never starts and
\* run stays pending for ever.
C34_PollingWaitsForTheSocket ==
    [](C34_NoPollWhileUnsettled) /\ [][C34_SettledBySocketEvent]_vars

C34_Witness ==
    /\ socket = "serverclosed" /\ ~settled
    /\ lastEvent = CloseEvent
    /\ pc = "socket" /\ nPolls = 0 /\ outcome.kind = "pending"


\* the token of the token response handled last
C35_ResponseToken == (CHOOSE x \in lastEvent.response.json.response : TRUE).token

\* C35: for the same upstream token and the same token response with the
\* token R, the Authorization header getItemMetadata sends with the metadata
\* request is the one run sends with the job-run request, "Bearer R" with
\* the prefix applied once, and getItemMetadata sends the header only when a
\* token was supplied.
C35_MetadataHeaderEqualsRunHeader ==
    /\ (/\ pc = "metadata:request"
        /\ lastEvent.type = "token"
        /\ lastEvent.response.json.response # {}
        /\ Truthy(C35_ResponseToken))
        => /\ "Authorization" \in DOMAIN LastRequest.headers
           /\ LastRequest.headers["Authorization"]
                = JobRunHeaders(BearerOf(C35_ResponseToken))["Authorization"]
           /\ LastRequest.headers["Authorization"] = <<"Bearer ">> \o C35_ResponseToken
    /\ \A i \in DOMAIN requests :
        (requests[i].kind = "metadata" /\ "Authorization" \in DOMAIN requests[i].headers)
            => Truthy(options.token)

====
